---- MODULE Spec2Model ----
(***************************************************************************)
(* A model of the NeverEnding 2D geometry kernel (geometry/2D.ts) and of   *)
(* the region quadtree built on it (containers/QuadTree.ts).  The kernel   *)
(* is modelled from its complete revision, in which Rectangle implements   *)
(* contains and intersects; the shapes are Point, Line, Rectangle,         *)
(* Triangle, Circle and Ray.  A second specification, GeoSpec, applies     *)
(* overlaps, contains, intersects and Line.side to pairs of shapes;        *)
(* VecSpec applies clamp, eq and neq to vectors; MoveSpec iterates         *)
(* moveToward (lib/movement.ts) in double arithmetic; InputSpec drives the *)
(* keyboard Input class through listen, disconnect, key events and its     *)
(* queries.                                                                *)
(*                                                                         *)
(* Coordinates are the program's numbers.  All shapes handed to the tree   *)
(* have integer coordinates and every root boundary has dimensions that    *)
(* are multiples of 2^MAX_DEPTH, so every width / 2 of the code is an      *)
(* exact integer (and exact in IEEE doubles).  Points computed by the      *)
(* intersection routines are rationals [n, d] with d > 0.                  *)
(***************************************************************************)
EXTENDS Integers, Sequences, FiniteSets, TLC

VARIABLES
    tree,      \* the root QuadTree
    given,     \* the boundary the caller gave last (constructor or resize)
    inserted,  \* the insert calls since construction / clear / resize, with results
    last,      \* the last call: its name, argument, result, and size() before it
    input      \* the static fields of Input, with the keyboard and the clock

vars == <<tree, given, inserted, last, input>>

-----------------------------------------------------------------------------
(* Numbers *)

Abs(a) == IF a < 0 THEN -a ELSE a

RECURSIVE Gcd(_, _)
Gcd(a, b) == IF b = 0 THEN a ELSE Gcd(b, a % b)

\* the rational n / d (d # 0) in lowest terms with a positive denominator
Rat(n, d) ==
    LET g == Gcd(Abs(n), Abs(d))
        s == IF d < 0 THEN -1 ELSE 1
    IN  [n |-> (s * n) \div g, d |-> (s * d) \div g]

RatInt(a) == [n |-> a, d |-> 1]
RatAdd(a, b) == Rat(a.n * b.d + b.n * a.d, a.d * b.d)
RatMul(a, b) == Rat(a.n * b.n, a.d * b.d)
RatLess(a, b) == a.n * b.d < b.n * a.d

\* Vector2D.epsilon = 0.001 as a rational
epsilon == [n |-> 1, d |-> 1000]

\* Math.abs(a - b) < Vector2D.epsilon on rationals
RatNear(a, b) ==
    LET diff == RatAdd(a, [n |-> -b.n, d |-> b.d])
    IN  RatLess([n |-> Abs(diff.n), d |-> diff.d], epsilon)

\* NaN, the value of 0 / 0; every comparison with it is false
NaN == [n |-> 0, d |-> 0]

RatSub(a, b) == RatAdd(a, [n |-> -b.n, d |-> b.d])

\* a <= b on numbers that may be NaN
RatLeq(a, b) == a.d # 0 /\ b.d # 0 /\ a.n * b.d <= b.n * a.d

-----------------------------------------------------------------------------
(* Doubles.  The program's numbers are IEEE doubles.  Where the model works *)
(* on small integers a double holds every value exactly and the arithmetic  *)
(* is written with the integers of TLA+.  Where products of nine-digit      *)
(* coordinates occur (Triangle.#containsPoint) the arithmetic is carried    *)
(* out on doubles: an integer-valued double is a sign and a magnitude of    *)
(* five limbs of 14 bits, least significant first, and every operation      *)
(* rounds its exact result to 53 significant bits, ties to even.            *)

LimbBase == 2^14

\* the limbs of a sequence of limb values that may exceed one limb or be
\* negative: carries and borrows move upwards
RECURSIVE CarryFrom(_, _, _)
CarryFrom(seq, i, c) ==
    IF i > Len(seq) THEN <<>>
    ELSE <<(seq[i] + c) % LimbBase>>
         \o CarryFrom(seq, i + 1, (seq[i] + c) \div LimbBase)

\* the magnitude of a natural number below 2^31
MagInt(a) == <<a % LimbBase, (a \div LimbBase) % LimbBase,
               a \div (LimbBase * LimbBase), 0, 0>>

MagAdd(a, b) == CarryFrom([i \in 1..5 |-> a[i] + b[i]], 1, 0)

\* a - b for a >= b
MagSub(a, b) == CarryFrom([i \in 1..5 |-> a[i] - b[i]], 1, 0)

MagLess(a, b) ==
    \E i \in 1..5 : a[i] < b[i] /\ \A j \in (i + 1)..5 : a[j] = b[j]

RECURSIVE Convolve(_, _, _, _)
Convolve(a, b, k, i) ==
    IF i > k THEN 0 ELSE a[i] * b[k + 1 - i] + Convolve(a, b, k, i + 1)

\* a * b for a product below 2^70
MagMul(a, b) == CarryFrom([k \in 1..5 |-> Convolve(a, b, k, 1)], 1, 0)

MagZero(a) == \A i \in 1..5 : a[i] = 0

\* the number of significant bits of a magnitude
BitLength(a) ==
    IF MagZero(a) THEN 0
    ELSE LET t == CHOOSE i \in 1..5 : a[i] # 0 /\ \A j \in (i + 1)..5 : a[j] = 0
         IN  14 * (t - 1) + (CHOOSE n \in 1..14 : 2^(n - 1) <= a[t] /\ a[t] < 2^n)

\* round to nearest, ties to even, at the bit of weight unit = 2^k, k < 14
RoundAt(a, unit) ==
    LET r == a[1] % unit
        down == [a EXCEPT ![1] = a[1] - r]
        odd == (a[1] \div unit) % 2 = 1
    IN  IF 2 * r > unit \/ (2 * r = unit /\ odd)
        THEN MagAdd(down, <<unit, 0, 0, 0, 0>>)
        ELSE down

\* a magnitude below 2^66 rounded to the 53 significant bits of a double
Round53(a) == IF BitLength(a) <= 53 THEN a ELSE RoundAt(a, 2^(BitLength(a) - 53))

\* the double holding the integer a, |a| < 2^31
dInt(a) == [neg |-> a < 0, mag |-> MagInt(Abs(a))]

dNeg(x) == [neg |-> ~x.neg, mag |-> x.mag]

dMul(x, y) == [neg |-> x.neg # y.neg, mag |-> Round53(MagMul(x.mag, y.mag))]

dAdd(x, y) ==
    [neg |-> IF x.neg = y.neg THEN x.neg
             ELSE IF MagLess(x.mag, y.mag) THEN y.neg ELSE x.neg,
     mag |-> Round53(IF x.neg = y.neg THEN MagAdd(x.mag, y.mag)
                     ELSE IF MagLess(x.mag, y.mag) THEN MagSub(y.mag, x.mag)
                     ELSE MagSub(x.mag, y.mag))]

dSub(x, y) == dAdd(x, dNeg(y))

\* x < 0, x > 0, x <= y on doubles; rounding keeps the sign of a difference
dNegative(x) == x.neg /\ ~MagZero(x.mag)
dPositive(x) == ~x.neg /\ ~MagZero(x.mag)
dLeq(x, y) == ~dPositive(dSub(x, y))

-----------------------------------------------------------------------------
(* Vector2D *)

Vector2D(x, y) == [x |-> x, y |-> y]

addBy(a, b) == Vector2D(a.x + b.x, a.y + b.y)
subtractBy(a, b) == Vector2D(a.x - b.x, a.y - b.y)
dot(a, b) == a.x * b.x + a.y * b.y
cross(a, b) == a.x * b.x - a.y * b.y
magnitudeSquared(a) == a.x * a.x + a.y * a.y

\* Vector2D.subtractFrom: the passed vector minus this one
subtractFrom(a, v) == Vector2D(v.x - a.x, v.y - a.y)

\* Math.max and Math.min
MathMax(a, b) == IF a >= b THEN a ELSE b
MathMin(a, b) == IF a <= b THEN a ELSE b

\* Vector2D.max, Vector2D.min and Vector2D.clamp
vectorMax(a, v) == Vector2D(MathMax(a.x, v.x), MathMax(a.y, v.y))
vectorMin(a, v) == Vector2D(MathMin(a.x, v.x), MathMin(a.y, v.y))
vectorClamp(a, min, max) == vectorMin(vectorMax(a, min), max)

\* Vector2D.eq and Vector2D.neq
eq(a, v) == a.x = v.x /\ a.y = v.y
neq(a, v) == a.x = v.x /\ a.y = v.y

\* a point of an intersection list: rational components
RatVec(v) == [x |-> RatInt(v.x), y |-> RatInt(v.y)]

RECURSIVE filterFrom(_, _)
filterFrom(vectors, prev) ==
    IF vectors = <<>> THEN prev
    ELSE LET currV == Head(vectors)
             dup == \E i \in 1..Len(prev) :
                        RatNear(currV.x, prev[i].x) /\ RatNear(currV.y, prev[i].y)
         IN  filterFrom(Tail(vectors), IF dup THEN prev ELSE Append(prev, currV))

filterDuplicateVectors(vectors) == filterFrom(vectors, <<>>)

\* Math.sqrt of a rational whose numerator and denominator are squares
IntSqrt(n) == CHOOSE k \in 0..n : k * k = n
sqrt(r) == [n |-> IntSqrt(r.n), d |-> IntSqrt(r.d)]

\* Vector2D.normalized of a vector of integer length: x * (1 / magnitude)
normalized(v) ==
    [x |-> Rat(v.x, IntSqrt(magnitudeSquared(v))),
     y |-> Rat(v.y, IntSqrt(magnitudeSquared(v)))]

\* Vector2D.perp, addBy, subtractBy and multiply (by a number) on vectors
\* with rational components
perp(v) == [x |-> RatMul(v.y, RatInt(-1)), y |-> v.x]
addByRat(a, b) == [x |-> RatAdd(a.x, b.x), y |-> RatAdd(a.y, b.y)]
subtractByRat(a, b) == [x |-> RatSub(a.x, b.x), y |-> RatSub(a.y, b.y)]
multiplyRat(a, k) == [x |-> RatMul(a.x, k), y |-> RatMul(a.y, k)]

-----------------------------------------------------------------------------
(* Shapes: a tagged union over the variants of the kernel *)

Point(p) == [kind |-> "Point", position |-> p]
Line(s, e) == [kind |-> "Line", start |-> s, end |-> e]
Rectangle(p, d) == [kind |-> "Rectangle", position |-> p, dimensions |-> d]
Ray(o, d) == [kind |-> "Ray", origin |-> o, direction |-> d]
Triangle(a, b, c) == [kind |-> "Triangle", position |-> <<a, b, c>>]
Circle(p, r) == [kind |-> "Circle", position |-> p, radius |-> r]

Rect(x, y, w, h) == Rectangle(Vector2D(x, y), Vector2D(w, h))

vector(l) == subtractBy(l.end, l.start)

top(r) == Line(r.position,
               Vector2D(r.position.x + r.dimensions.x, r.position.y))
bottom(r) == Line(Vector2D(r.position.x, r.position.y + r.dimensions.y),
                  addBy(r.position, r.dimensions))
left(r) == Line(r.position,
                Vector2D(r.position.x, r.position.y + r.dimensions.y))
right(r) == Line(Vector2D(r.position.x + r.dimensions.x, r.position.y),
                 addBy(r.position, r.dimensions))

\* Rectangle.side(index), index in 0..3, clockwise from the top
rectSide(r, index) ==
    CASE index % 4 = 0 -> top(r)
      [] index % 4 = 1 -> right(r)
      [] index % 4 = 2 -> bottom(r)
      [] index % 4 = 3 -> left(r)

\* Triangle.side(index): Line(position[index % 3], position[(index + 1) % 3])
triSide(t, index) ==
    Line(t.position[(index % 3) + 1], t.position[((index + 1) % 3) + 1])

-----------------------------------------------------------------------------
(* Line.side: d < 0 ? -1 : d > 0 ? 1 : 0 *)

lineSide(self, point) ==
    LET d == cross(vector(self), subtractFrom(self.start, point))
    IN  IF d < 0 THEN -1 ELSE IF d > 0 THEN 1 ELSE 0

-----------------------------------------------------------------------------
(* closest: the point of a shape nearest to a Point, with rational components *)

\* clamp(value, min, max) of lib/utils: max(min, min(max, value)); NaN stays NaN
clamp(value, min, max) ==
    IF value.d = 0 THEN value
    ELSE LET lower == IF RatLess(max, value) THEN max ELSE value
         IN  IF RatLess(lower, min) THEN min ELSE lower

\* a.subtractBy(p).magnitudeSquared() for a point p with rational components
magnitudeSquaredTo(a, p) ==
    IF p.x.d = 0 \/ p.y.d = 0 THEN NaN
    ELSE LET dx == RatSub(RatInt(a.x), p.x)
             dy == RatSub(RatInt(a.y), p.y)
         IN  RatAdd(RatMul(dx, dx), RatMul(dy, dy))

\* Line.#closestPoint: the projection onto the segment.  For a zero-length
\* line the parameter is 0 / 0 and the point returned has NaN components.
lineClosestPoint(self, shape) ==
    LET len == vector(self)
        den == magnitudeSquared(len)
        num == dot(len, subtractBy(shape.position, self.start))
        unitDis == clamp(IF den = 0 THEN NaN ELSE Rat(num, den),
                         RatInt(0), RatInt(1))
    IN  IF unitDis.d = 0 THEN [x |-> NaN, y |-> NaN]
        ELSE [x |-> RatAdd(RatInt(self.start.x), RatMul(RatInt(len.x), unitDis)),
              y |-> RatAdd(RatInt(self.start.y), RatMul(RatInt(len.y), unitDis))]

\* the tail of Triangle.#closestPoint: of the three closest points the one
\* with the least squared distance d0, d1, d2 to the point, the first on a tie
nearestOfThree(shape, p0, p1, p2) ==
    LET d0 == magnitudeSquaredTo(shape.position, p0)
        d1 == magnitudeSquaredTo(shape.position, p1)
        d2 == magnitudeSquaredTo(shape.position, p2)
    IN  IF RatLeq(d0, d1) /\ RatLeq(d0, d2) THEN p0
        ELSE IF RatLeq(d1, d0) /\ RatLeq(d1, d2) THEN p1
        ELSE p2

\* Triangle.#closestPoint: the nearest of the closest points of the sides
\* position[0]-position[1], position[0]-position[2], position[1]-position[2]
triClosestPoint(self, shape) ==
    nearestOfThree(shape,
        lineClosestPoint(Line(self.position[1], self.position[2]), shape),
        lineClosestPoint(Line(self.position[1], self.position[3]), shape),
        lineClosestPoint(Line(self.position[2], self.position[3]), shape))

-----------------------------------------------------------------------------
(* contains *)

\* Point.#containsPoint: magnitudeSquared of the difference < epsilon
pointContainsPoint(self, shape) ==
    RatLess(RatInt(magnitudeSquared(subtractBy(self.position, shape.position))),
            epsilon)

\* Point.contains: only a coincident Point
pointContains(self, shape) ==
    IF shape.kind = "Point" THEN pointContainsPoint(self, shape) ELSE FALSE

\* Line.#containsPoint.  unit = dot / magnitudeSquared is NaN or Infinity for a
\* zero-length line, and every comparison with it is false.
lineContainsPoint(self, shape) ==
    LET d == (shape.position.x - self.start.x) * (self.end.y - self.start.y)
             - (shape.position.y - self.start.y) * (self.end.x - self.start.x)
        num == dot(vector(self), subtractBy(shape.position, self.start))
        den == magnitudeSquared(vector(self))
    IN  IF RatLess(RatInt(Abs(d)), epsilon)
        THEN den # 0 /\ num >= 0 /\ num <= den
        ELSE FALSE

\* Line.#containsLine: both end points lie on this line
lineContainsLine(self, shape) ==
    /\ lineContainsPoint(self, Point(shape.start))
    /\ lineContainsPoint(self, Point(shape.end))

lineContains(self, shape) ==
    CASE shape.kind = "Point" -> lineContainsPoint(self, shape)
      [] shape.kind = "Line" -> lineContainsLine(self, shape)
      [] OTHER -> FALSE

\* rectContainsPoint without the tests against the left and upper sides
rectContainsPointNoLowerSides(self, shape) ==
    ~ ( \/ shape.position.x > self.position.x + self.dimensions.x
        \/ shape.position.y > self.position.y + self.dimensions.y )

rectContainsPoint(self, shape) ==
    ~ ( \/ shape.position.x < self.position.x
        \/ shape.position.y < self.position.y
        \/ shape.position.x > self.position.x + self.dimensions.x
        \/ shape.position.y > self.position.y + self.dimensions.y )

rectContainsLine(self, shape) ==
    /\ rectContainsPoint(self, Point(shape.start))
    /\ rectContainsPoint(self, Point(shape.end))

\* rectContainsRectangle taking a shared point for containment
rectContainsRectangleByOverlap(self, shape) ==
    /\ self.position.x <= shape.position.x + shape.dimensions.x
    /\ self.position.x + self.dimensions.x >= shape.position.x
    /\ self.position.y <= shape.position.y + shape.dimensions.y
    /\ self.position.y + self.dimensions.y >= shape.position.y

rectContainsRectangle(self, shape) ==
    /\ shape.position.x >= self.position.x
    /\ shape.position.x + shape.dimensions.x <= self.position.x + self.dimensions.x
    /\ shape.position.y >= self.position.y
    /\ shape.position.y + shape.dimensions.y <= self.position.y + self.dimensions.y

rectContainsTriangle(self, shape) ==
    /\ rectContainsLine(self, triSide(shape, 0))
    /\ rectContainsLine(self, triSide(shape, 1))
    /\ rectContainsLine(self, triSide(shape, 2))

rectContainsCircle(self, shape) ==
    /\ self.position.x + shape.radius <= shape.position.x
    /\ shape.position.x <= self.position.x + self.dimensions.x - shape.radius
    /\ self.position.y + shape.radius <= shape.position.y
    /\ shape.position.y <= self.position.y + self.dimensions.y - shape.radius

\* A rectangle cannot contain a ray
rectContainsRay(self, shape) == FALSE

\* Rectangle.contains: dispatch on the variant of the argument
rectContains(self, shape) ==
    CASE shape.kind = "Point" -> rectContainsPoint(self, shape)
      [] shape.kind = "Line" -> rectContainsLine(self, shape)
      [] shape.kind = "Rectangle" -> rectContainsRectangle(self, shape)
      [] shape.kind = "Triangle" -> rectContainsTriangle(self, shape)
      [] shape.kind = "Circle" -> rectContainsCircle(self, shape)
      [] shape.kind = "Ray" -> rectContainsRay(self, shape)

\* Ray.#containsPoint: the point is not behind the origin and its offset from
\* the origin equals direction * (offset . direction) up to epsilon;
\* sqrt(d2) < epsilon is d2 < epsilon * epsilon
rayContainsPoint(self, shape) ==
    LET originToPoint == subtractBy(shape.position, self.origin)
        dotProduct == dot(originToPoint, self.direction)
        projection == Vector2D(self.direction.x * dotProduct,
                               self.direction.y * dotProduct)
    IN  IF dotProduct < 0 THEN FALSE
        ELSE RatLess(RatInt(magnitudeSquared(subtractBy(projection, originToPoint))),
                     RatMul(epsilon, epsilon))

\* Ray.contains: a ray cannot contain any shape except a Point
rayContains(self, shape) ==
    IF shape.kind = "Point" THEN rayContainsPoint(self, shape) ELSE FALSE

\* Circle.#containsPoint
circleContainsPoint(self, shape) ==
    magnitudeSquared(subtractBy(self.position, shape.position))
        <= self.radius * self.radius

circleContainsLine(self, shape) ==
    /\ circleContainsPoint(self, Point(shape.start))
    /\ circleContainsPoint(self, Point(shape.end))

\* Circle.#containsRectangle: the second point tested is
\* (position.x + position.y, position.y)
circleContainsRectangle(self, shape) ==
    /\ circleContainsPoint(self, Point(shape.position))
    /\ circleContainsPoint(self,
          Point(Vector2D(shape.position.x + shape.position.y, shape.position.y)))
    /\ circleContainsPoint(self,
          Point(Vector2D(shape.position.x, shape.position.y + shape.dimensions.y)))
    /\ circleContainsPoint(self, Point(addBy(shape.position, shape.dimensions)))

circleContainsTriangle(self, shape) ==
    /\ circleContainsPoint(self, Point(shape.position[1]))
    /\ circleContainsPoint(self, Point(shape.position[2]))
    /\ circleContainsPoint(self, Point(shape.position[3]))

\* Circle.#containsCircle: sqrt(d2) + shape.radius <= radius, which for a
\* distance squared d2 is radius - shape.radius >= 0 and
\* d2 <= (radius - shape.radius)^2
circleContainsCircle(self, shape) ==
    /\ self.radius - shape.radius >= 0
    /\ magnitudeSquared(subtractBy(shape.position, self.position))
          <= (self.radius - shape.radius) * (self.radius - shape.radius)

\* A circle cannot contain a ray
circleContainsRay(self, shape) == FALSE

circleContains(self, shape) ==
    CASE shape.kind = "Point" -> circleContainsPoint(self, shape)
      [] shape.kind = "Line" -> circleContainsLine(self, shape)
      [] shape.kind = "Rectangle" -> circleContainsRectangle(self, shape)
      [] shape.kind = "Triangle" -> circleContainsTriangle(self, shape)
      [] shape.kind = "Circle" -> circleContainsCircle(self, shape)
      [] shape.kind = "Ray" -> circleContainsRay(self, shape)

\* Triangle.#containsPoint, the barycentric test, in double arithmetic.
\* triTwiceA is the sum A is half of: A = 0.5 * triTwiceA and 2 * A are exact.
triTwiceA(p0, p1, p2) ==
    dAdd(dAdd(dAdd(dMul(dMul(dInt(p1.y), dInt(-1)), dInt(p2.x)),
                   dMul(dInt(p0.y),
                        dAdd(dMul(dInt(p1.x), dInt(-1)), dInt(p2.x)))),
              dMul(dInt(p0.x), dSub(dInt(p1.y), dInt(p2.y)))),
         dMul(dInt(p1.x), dInt(p2.y)))

\* s before the multiplication by sign
triS(p0, p2, q) ==
    dAdd(dAdd(dSub(dMul(dInt(p0.y), dInt(p2.x)), dMul(dInt(p0.x), dInt(p2.y))),
              dMul(dSub(dInt(p2.y), dInt(p0.y)), dInt(q.x))),
         dMul(dSub(dInt(p0.x), dInt(p2.x)), dInt(q.y)))

\* v before the multiplication by sign
triV(p0, p1, q) ==
    dAdd(dAdd(dSub(dMul(dInt(p0.x), dInt(p1.y)), dMul(dInt(p0.y), dInt(p1.x))),
              dMul(dSub(dInt(p0.y), dInt(p1.y)), dInt(q.x))),
         dMul(dSub(dInt(p1.x), dInt(p0.x)), dInt(q.y)))

\* sign = A < 0 ? -1 : 1, and s >= 0 && v >= 0 && s + v <= 2 * A * sign
triInside(twiceA, s, v) ==
    LET sign == IF dNegative(twiceA) THEN dInt(-1) ELSE dInt(1)
    IN  /\ ~dNegative(dMul(s, sign))
        /\ ~dNegative(dMul(v, sign))
        /\ dLeq(dAdd(dMul(s, sign), dMul(v, sign)), dMul(twiceA, sign))

triContainsPoint(self, shape) ==
    triInside(triTwiceA(self.position[1], self.position[2], self.position[3]),
              triS(self.position[1], self.position[3], shape.position),
              triV(self.position[1], self.position[2], shape.position))

triContainsLine(self, shape) ==
    /\ triContainsPoint(self, Point(shape.start))
    /\ triContainsPoint(self, Point(shape.end))

triContainsRectangle(self, shape) ==
    /\ triContainsPoint(self, Point(shape.position))
    /\ triContainsPoint(self, Point(addBy(shape.position, shape.dimensions)))
    /\ triContainsPoint(self,
          Point(Vector2D(shape.position.x + shape.dimensions.x, shape.position.y)))
    /\ triContainsPoint(self,
          Point(Vector2D(shape.position.x, shape.position.y + shape.dimensions.y)))

triContainsTriangle(self, shape) ==
    /\ triContainsPoint(self, Point(shape.position[1]))
    /\ triContainsPoint(self, Point(shape.position[2]))
    /\ triContainsPoint(self, Point(shape.position[3]))

\* Triangle.#containsCircle: the centre is inside and at least a radius away
\* from the closest point of the sides
triContainsCircle(self, shape) ==
    /\ triContainsPoint(self, Point(shape.position))
    /\ RatLeq(RatInt(shape.radius * shape.radius),
              magnitudeSquaredTo(shape.position,
                                 triClosestPoint(self, Point(shape.position))))

\* A triangle cannot contain a ray
triContainsRay(self, shape) == FALSE

triContains(self, shape) ==
    CASE shape.kind = "Point" -> triContainsPoint(self, shape)
      [] shape.kind = "Line" -> triContainsLine(self, shape)
      [] shape.kind = "Rectangle" -> triContainsRectangle(self, shape)
      [] shape.kind = "Triangle" -> triContainsTriangle(self, shape)
      [] shape.kind = "Circle" -> triContainsCircle(self, shape)
      [] shape.kind = "Ray" -> triContainsRay(self, shape)

\* Shape.contains: dispatch on the variant of the receiver
contains(self, shape) ==
    CASE self.kind = "Point" -> pointContains(self, shape)
      [] self.kind = "Line" -> lineContains(self, shape)
      [] self.kind = "Rectangle" -> rectContains(self, shape)
      [] self.kind = "Triangle" -> triContains(self, shape)
      [] self.kind = "Circle" -> circleContains(self, shape)
      [] self.kind = "Ray" -> rayContains(self, shape)

-----------------------------------------------------------------------------
(* overlaps *)

\* Line.#overlapsLine: the two-parameter segment test.  With distance = 0 the
\* parameters are NaN or infinite and one of the comparisons is false.
lineOverlapsLine(self, shape) ==
    LET distance == (shape.end.y - shape.start.y) * (self.end.x - self.start.x)
                    - (shape.end.x - shape.start.x) * (self.end.y - self.start.y)
        numA == (shape.end.x - shape.start.x) * (self.start.y - shape.start.y)
                - (shape.end.y - shape.start.y) * (self.start.x - shape.start.x)
        numB == (self.end.x - self.start.x) * (self.start.y - shape.start.y)
                - (self.end.y - self.start.y) * (self.start.x - shape.start.x)
    IN  IF distance = 0 THEN FALSE
        ELSE LET unitA == Rat(numA, distance)
                 unitB == Rat(numB, distance)
             IN  /\ RatLeq(RatInt(0), unitA) /\ RatLeq(unitA, RatInt(1))
                 /\ RatLeq(RatInt(0), unitB) /\ RatLeq(unitB, RatInt(1))

\* Triangle.#overlapsPoint: this.contains(shape), which for a Point is
\* #containsPoint
triOverlapsPoint(self, shape) == triContainsPoint(self, shape)

\* Triangle.#overlapsLine: the start point is inside or a side crosses the line
triOverlapsLine(self, shape) ==
    \/ triOverlapsPoint(self, Point(shape.start))
    \/ lineOverlapsLine(triSide(self, 0), shape)
    \/ lineOverlapsLine(triSide(self, 1), shape)
    \/ lineOverlapsLine(triSide(self, 2), shape)

triOverlapsRectangle(self, shape) ==
    \/ triOverlapsLine(self, top(shape))
    \/ triOverlapsLine(self, bottom(shape))
    \/ triOverlapsLine(self, left(shape))
    \/ triOverlapsLine(self, right(shape))
    \/ rectContainsPoint(shape, Point(self.position[1]))

triOverlapsTriangle(self, shape) ==
    \/ triOverlapsLine(self, triSide(shape, 0))
    \/ triOverlapsLine(self, triSide(shape, 1))
    \/ triOverlapsLine(self, triSide(shape, 2))
    \/ triOverlapsPoint(shape, Point(self.position[1]))

triOverlapsCircle(self, shape) ==
    \/ triContainsPoint(self, Point(shape.position))
    \/ RatLeq(magnitudeSquaredTo(shape.position,
                                 triClosestPoint(self, Point(shape.position))),
              RatInt(shape.radius * shape.radius))

\* A ray cannot overlap with a triangle and vice versa
triOverlapsRay(self, shape) == FALSE

triOverlaps(self, shape) ==
    CASE shape.kind = "Point" -> triOverlapsPoint(self, shape)
      [] shape.kind = "Line" -> triOverlapsLine(self, shape)
      [] shape.kind = "Rectangle" -> triOverlapsRectangle(self, shape)
      [] shape.kind = "Triangle" -> triOverlapsTriangle(self, shape)
      [] shape.kind = "Circle" -> triOverlapsCircle(self, shape)
      [] shape.kind = "Ray" -> triOverlapsRay(self, shape)

circleOverlapsPoint(self, shape) == circleContainsPoint(self, shape)

\* Circle.#overlapsLine: the line's closest point to the centre lies within
\* the radius
circleOverlapsLine(self, shape) ==
    RatLeq(magnitudeSquaredTo(self.position,
                              lineClosestPoint(shape, Point(self.position))),
           RatInt(self.radius * self.radius))

\* Circle.#overlapsRectangle: the centre clamped into the rectangle, compared
\* with the radius by overlap - radius^2 < 0
circleOverlapsRectangle(self, shape) ==
    LET cx == clamp(RatInt(self.position.x), RatInt(shape.position.x),
                    RatInt(shape.position.x + shape.dimensions.x))
        cy == clamp(RatInt(self.position.y), RatInt(shape.position.y),
                    RatInt(shape.position.y + shape.dimensions.y))
        overlap == magnitudeSquaredTo(self.position, [x |-> cx, y |-> cy])
    IN  RatLess(RatSub(overlap, RatInt(self.radius * self.radius)), RatInt(0))

\* shape.overlaps(this): the triangle's dispatch on a Circle
circleOverlapsTriangle(self, shape) == triOverlapsCircle(shape, self)

circleOverlapsCircle(self, shape) ==
    magnitudeSquared(subtractBy(self.position, shape.position))
        <= (self.radius + shape.radius) * (self.radius + shape.radius)

\* A circle cannot overlap a ray
circleOverlapsRay(self, shape) == FALSE

circleOverlaps(self, shape) ==
    CASE shape.kind = "Point" -> circleOverlapsPoint(self, shape)
      [] shape.kind = "Line" -> circleOverlapsLine(self, shape)
      [] shape.kind = "Rectangle" -> circleOverlapsRectangle(self, shape)
      [] shape.kind = "Triangle" -> circleOverlapsTriangle(self, shape)
      [] shape.kind = "Circle" -> circleOverlapsCircle(self, shape)
      [] shape.kind = "Ray" -> circleOverlapsRay(self, shape)

rectOverlapsPoint(self, shape) == rectContainsPoint(self, shape)

rectOverlapsLine(self, shape) ==
    \/ rectContainsPoint(self, Point(shape.start))
    \/ rectContainsPoint(self, Point(shape.end))
    \/ lineOverlapsLine(top(self), shape)
    \/ lineOverlapsLine(bottom(self), shape)
    \/ lineOverlapsLine(left(self), shape)
    \/ lineOverlapsLine(right(self), shape)

\* Rectangle.#overlapsRectangle with < for <= and > for >=
rectOverlapsRectangleStrict(self, shape) ==
    /\ self.position.x < shape.position.x + shape.dimensions.x
    /\ self.position.x + self.dimensions.x > shape.position.x
    /\ self.position.y < shape.position.y + shape.dimensions.y
    /\ self.position.y + self.dimensions.y > shape.position.y

rectOverlapsRectangle(self, shape) ==
    /\ self.position.x <= shape.position.x + shape.dimensions.x
    /\ self.position.x + self.dimensions.x >= shape.position.x
    /\ self.position.y <= shape.position.y + shape.dimensions.y
    /\ self.position.y + self.dimensions.y >= shape.position.y

\* shape.overlaps(this): the triangle's dispatch on a Rectangle
rectOverlapsTriangle(self, shape) == triOverlapsRectangle(shape, self)

\* shape.overlaps(this): the circle's dispatch on a Rectangle
rectOverlapsCircle(self, shape) == circleOverlapsRectangle(shape, self)

\* A ray cannot overlap with a rectangle
rectOverlapsRay(self, shape) == FALSE

rectOverlaps(self, shape) ==
    CASE shape.kind = "Point" -> rectOverlapsPoint(self, shape)
      [] shape.kind = "Line" -> rectOverlapsLine(self, shape)
      [] shape.kind = "Rectangle" -> rectOverlapsRectangle(self, shape)
      [] shape.kind = "Triangle" -> rectOverlapsTriangle(self, shape)
      [] shape.kind = "Circle" -> rectOverlapsCircle(self, shape)
      [] shape.kind = "Ray" -> rectOverlapsRay(self, shape)

\* Line.overlaps: a Point by contains, a Line by the segment test, the other
\* shapes by shape.overlaps(this), whose dispatch on a Line selects their
\* #overlapsLine; never a Ray
lineOverlaps(self, shape) ==
    CASE shape.kind = "Point" -> lineContainsPoint(self, shape)
      [] shape.kind = "Line" -> lineOverlapsLine(self, shape)
      [] shape.kind = "Rectangle" -> rectOverlapsLine(shape, self)
      [] shape.kind = "Triangle" -> triOverlapsLine(shape, self)
      [] shape.kind = "Circle" -> circleOverlapsLine(shape, self)
      [] shape.kind = "Ray" -> FALSE

\* Point.overlaps: a Point by #containsPoint, a Line by the line's contains,
\* every other shape by this point's #contains..., which is false
pointOverlaps(self, shape) ==
    CASE shape.kind = "Point" -> pointContainsPoint(self, shape)
      [] shape.kind = "Line" -> lineContainsPoint(shape, self)
      [] shape.kind = "Rectangle" -> FALSE
      [] shape.kind = "Triangle" -> FALSE
      [] shape.kind = "Circle" -> FALSE
      [] shape.kind = "Ray" -> FALSE

\* Ray.overlaps answering for a point on the ray
rayOverlapsPointOnRay(self, shape) ==
    shape.kind = "Point" /\ rayContainsPoint(self, shape)

\* Ray.overlaps: a ray cannot overlap with any shape
rayOverlaps(self, shape) == FALSE

\* Shape.overlaps: dispatch on the variant of the receiver
overlaps(self, shape) ==
    CASE self.kind = "Point" -> pointOverlaps(self, shape)
      [] self.kind = "Line" -> lineOverlaps(self, shape)
      [] self.kind = "Rectangle" -> rectOverlaps(self, shape)
      [] self.kind = "Triangle" -> triOverlaps(self, shape)
      [] self.kind = "Circle" -> circleOverlaps(self, shape)
      [] self.kind = "Ray" -> rayOverlaps(self, shape)

-----------------------------------------------------------------------------
(* intersects: the list of crossing points *)

\* Point.intersects: unimplemented(), which logs and returns, then []
pointIntersects(self, shape) == <<>>

\* Line.#intersectsPoint
lineIntersectsPoint(self, shape) ==
    IF lineContainsPoint(self, shape) THEN <<RatVec(shape.position)>> ELSE <<>>

\* Line.#intersectsLine.  rn and sn are compared with 0.0 and 1.0 as exact
\* rationals; the point is this.start.addBy(rn).multiply(this.vector()).
lineIntersectsLine(self, shape) ==
    LET rd == cross(vector(self), vector(shape))
        rnNum == (shape.end.x - shape.start.x) * (self.start.y - shape.start.y)
                 - (shape.end.y - shape.start.y) * (self.start.x - shape.start.x)
        snNum == (self.end.x - self.start.x) * (self.start.y - shape.start.y)
                 - (self.end.y - self.start.y) * (self.start.x - shape.start.x)
    IN  IF rd = 0 THEN <<>>
        ELSE LET rn == Rat(rnNum, rd)
                 sn == Rat(snNum, rd)
             IN  IF \/ RatLess(rn, RatInt(0)) \/ RatLess(RatInt(1), rn)
                    \/ RatLess(sn, RatInt(0)) \/ RatLess(RatInt(1), sn)
                 THEN <<>>
                 ELSE << [x |-> RatMul(RatAdd(RatInt(self.start.x), rn),
                                       RatInt(vector(self).x)),
                          y |-> RatMul(RatAdd(RatInt(self.start.y), rn),
                                       RatInt(vector(self).y))] >>

\* Rectangle.#intersectsPoint
rectIntersectsPoint(self, shape) ==
    IF \E i \in 0..3 : lineContainsPoint(rectSide(self, i), shape)
    THEN <<RatVec(shape.position)>>
    ELSE <<>>

\* Rectangle.#intersectsLine
rectIntersectsLine(self, shape) ==
    filterDuplicateVectors(
        lineIntersectsLine(rectSide(self, 0), shape)
        \o lineIntersectsLine(rectSide(self, 1), shape)
        \o lineIntersectsLine(rectSide(self, 2), shape)
        \o lineIntersectsLine(rectSide(self, 3), shape))

\* Rectangle.#intersectsRectangle
rectIntersectsRectangle(self, shape) ==
    filterDuplicateVectors(
        rectIntersectsLine(self, rectSide(shape, 0))
        \o rectIntersectsLine(self, rectSide(shape, 1))
        \o rectIntersectsLine(self, rectSide(shape, 2))
        \o rectIntersectsLine(self, rectSide(shape, 3)))

\* Triangle.#intersectsLine
triIntersectsLine(self, shape) ==
    filterDuplicateVectors(
        lineIntersectsLine(triSide(self, 0), shape)
        \o lineIntersectsLine(triSide(self, 1), shape)
        \o lineIntersectsLine(triSide(self, 2), shape))

\* Triangle.#intersectsRectangle
triIntersectsRectangle(self, shape) ==
    filterDuplicateVectors(
        triIntersectsLine(self, rectSide(shape, 0))
        \o triIntersectsLine(self, rectSide(shape, 1))
        \o triIntersectsLine(self, rectSide(shape, 2))
        \o triIntersectsLine(self, rectSide(shape, 3)))

\* Rectangle.intersects: Triangle delegates to the triangle, Ray yields []
rectIntersects(self, shape) ==
    CASE shape.kind = "Point" -> rectIntersectsPoint(self, shape)
      [] shape.kind = "Line" -> rectIntersectsLine(self, shape)
      [] shape.kind = "Rectangle" -> rectIntersectsRectangle(self, shape)
      [] shape.kind = "Triangle" -> triIntersectsRectangle(shape, self)
      [] shape.kind = "Ray" -> <<>>

\* Line.intersects: Rectangle and Triangle delegate to shape.intersects(this)
lineIntersects(self, shape) ==
    CASE shape.kind = "Point" -> lineIntersectsPoint(self, shape)
      [] shape.kind = "Line" -> lineIntersectsLine(self, shape)
      [] shape.kind = "Rectangle" -> rectIntersectsLine(shape, self)
      [] shape.kind = "Triangle" -> triIntersectsLine(shape, self)

\* the two chord endpoints of Circle.#intersectsCircle
chordEnds(self, between, dist2, shape) ==
    LET dist == sqrt(RatInt(dist2))
        ccDist == RatMul(RatInt(dist2 + self.radius * self.radius
                                - shape.radius * shape.radius),
                         [n |-> dist.d, d |-> 2 * dist.n])
        chordCenter == multiplyRat(addByRat(RatVec(self.position),
                                            normalized(between)), ccDist)
        halfChord == multiplyRat(perp(normalized(between)),
                        sqrt(RatSub(RatInt(self.radius * self.radius),
                                    RatMul(ccDist, ccDist))))
    IN  <<addByRat(chordCenter, halfChord), subtractByRat(chordCenter, halfChord)>>

\* Circle.#intersectsCircle
circleIntersectsCircle(self, shape) ==
    LET between == subtractBy(shape.position, self.position)
        dist2 == magnitudeSquared(between)
        radiusSum == self.radius + shape.radius
    IN  IF eq(self.position, shape.position) THEN <<>>
        ELSE IF dist2 > radiusSum * radiusSum THEN <<>>
        ELSE IF circleContainsCircle(self, shape) \/ circleContainsCircle(shape, self)
        THEN <<>>
        ELSE IF dist2 = radiusSum
        THEN <<multiplyRat(addByRat(RatVec(self.position), normalized(between)),
                           RatInt(self.radius))>>
        ELSE chordEnds(self, between, dist2, shape)

\* Circle.intersects, for a Circle
circleIntersects(self, shape) ==
    CASE shape.kind = "Circle" -> circleIntersectsCircle(self, shape)

\* Shape.intersects for the variants used as a boundary, as a query range or
\* in a crossing
intersects(self, shape) ==
    CASE self.kind = "Point" -> pointIntersects(self, shape)
      [] self.kind = "Line" -> lineIntersects(self, shape)
      [] self.kind = "Rectangle" -> rectIntersects(self, shape)
      [] self.kind = "Circle" -> circleIntersects(self, shape)

\* Truthy testing the length of the array, as array.length > 0 would
TruthyWhenNonEmpty(array) == Len(array) > 0

\* JavaScript truthiness of an Array value: every array, the empty one
\* included, is truthy, so !array is false.
Truthy(array) == TRUE

-----------------------------------------------------------------------------
(* QuadTree *)

MAX_DEPTH == 8

\* the value of #children before subdivision and after clear()
undefined == [tag |-> "undefined"]

\* the quadrants with the two northern ones swapped
QuadrantsWestFirst == <<"northwest", "northeast", "southwest", "southeast">>

\* the order in which insert, query, getAllNodes, size and clear visit children
Quadrants == <<"northeast", "northwest", "southwest", "southeast">>

\* QuadTreeNode: the record wrapping one shape.  id stands for the identity of
\* the object the caller allocated.
QuadTreeNode(id, shape) == [id |-> id, shape |-> shape]

\* calulateChildBoundaries placing the southern quadrants on the northern ones
calulateChildBoundariesNoSouth(x, y, width, height) ==
    LET halfWidth == width \div 2
        halfHeight == height \div 2
    IN  [northeast |-> Rect(x + halfWidth, y, halfWidth, halfHeight),
         northwest |-> Rect(x, y, halfWidth, halfHeight),
         southwest |-> Rect(x, y, halfWidth, halfHeight),
         southeast |-> Rect(x + halfWidth, y, halfWidth, halfHeight)]

calulateChildBoundaries(x, y, width, height) ==
    LET halfWidth == width \div 2
        halfHeight == height \div 2
    IN  [northeast |-> Rect(x + halfWidth, y, halfWidth, halfHeight),
         northwest |-> Rect(x, y, halfWidth, halfHeight),
         southwest |-> Rect(x, y + halfHeight, halfWidth, halfHeight),
         southeast |-> Rect(x + halfWidth, y + halfHeight, halfWidth, halfHeight)]

\* new QuadTree(boundary, depthLayer)
QuadTree(boundary, depthLayer) ==
    [boundary |-> boundary,
     depthLayer |-> depthLayer,
     children |-> undefined,
     nodes |-> <<>>,
     childrenBoundaries |->
         calulateChildBoundaries(boundary.position.x, boundary.position.y,
                                 boundary.dimensions.x, boundary.dimensions.y)]

\* the four children subdivide allocates, one layer below the node
fourChildren(self) ==
    [northeast |-> QuadTree(self.childrenBoundaries.northeast, self.depthLayer + 1),
     northwest |-> QuadTree(self.childrenBoundaries.northwest, self.depthLayer + 1),
     southwest |-> QuadTree(self.childrenBoundaries.southwest, self.depthLayer + 1),
     southeast |-> QuadTree(self.childrenBoundaries.southeast, self.depthLayer + 1)]

\* subdivide emptying the node's own record list
subdivideDropsRecords(self) ==
    IF self.children # undefined THEN self
    ELSE IF self.depthLayer + 1 >= MAX_DEPTH THEN self
    ELSE [self EXCEPT !.children = fourChildren(self), !.nodes = <<>>]

\* subdivide refusing one layer early
subdivideStopsEarly(self) ==
    IF self.children # undefined THEN self
    ELSE IF self.depthLayer + 2 >= MAX_DEPTH THEN self
    ELSE [self EXCEPT !.children = fourChildren(self)]

\* subdivide with > for >= in the depth test
subdivideOneTooDeep(self) ==
    IF self.children # undefined THEN self
    ELSE IF self.depthLayer + 1 > MAX_DEPTH THEN self
    ELSE [self EXCEPT !.children = fourChildren(self)]

\* subdivide without the early return for a node that has children
subdivideAgain(self) ==
    IF self.depthLayer + 1 >= MAX_DEPTH THEN self
    ELSE [self EXCEPT !.children = fourChildren(self)]

subdivide(self) ==
    IF self.children # undefined THEN self
    ELSE IF self.depthLayer + 1 >= MAX_DEPTH THEN self
    ELSE [self EXCEPT !.children = fourChildren(self)]

\* insert(node): the pair of the returned boolean and the tree afterwards.
\* insertFrom(self, node, i) is the body of insert from its i-th quadrant test
\* on; past the fourth test comes the check against the node's own boundary.
RECURSIVE insertFrom(_, _, _)
insertFrom(self, node, i) ==
    IF i > Len(Quadrants)
    THEN IF ~contains(self.boundary, node.shape)
         THEN [ret |-> FALSE, tree |-> self]
         ELSE [ret |-> TRUE,
               tree |-> [self EXCEPT !.nodes = Append(self.nodes, node)]]
    ELSE LET q == Quadrants[i] IN
         IF contains(self.childrenBoundaries[q], node.shape)
         THEN LET s == IF self.children = undefined THEN subdivide(self) ELSE self
              IN  IF s.children # undefined
                  THEN LET r == insertFrom(s.children[q], node, 1)
                       IN  [ret |-> r.ret,
                            tree |-> [s EXCEPT !.children[q] = r.tree]]
                  ELSE insertFrom(s, node, i + 1)
         ELSE insertFrom(self, node, i + 1)

\* insert subdividing the node when it rejects the record
insertSubdividing(self, node) ==
    IF insertFrom(self, node, 1).ret
    THEN insertFrom(self, node, 1)
    ELSE [ret |-> FALSE, tree |-> subdivide(self)]

insert(self, node) == insertFrom(self, node, 1)

\* allNodes visiting the children before the node's own records
RECURSIVE allNodesChildrenFirst(_)
allNodesChildrenFirst(self) ==
    IF self.children # undefined
    THEN allNodesChildrenFirst(self.children.northeast)
         \o allNodesChildrenFirst(self.children.northwest)
         \o allNodesChildrenFirst(self.children.southwest)
         \o allNodesChildrenFirst(self.children.southeast)
         \o self.nodes
    ELSE self.nodes

\* what getAllNodes pushes, in the order it pushes: the node's own records,
\* then the northeast, northwest, southwest and southeast subtrees
RECURSIVE allNodes(_)
allNodes(self) ==
    IF self.children # undefined
    THEN self.nodes
         \o allNodes(self.children.northeast)
         \o allNodes(self.children.northwest)
         \o allNodes(self.children.southwest)
         \o allNodes(self.children.southeast)
    ELSE self.nodes

\* getAllNodes(nodes): pushes onto the accumulator and returns it
getAllNodes(self, nodes) == nodes \o allNodes(self)

RECURSIVE size(_)
size(self) ==
    IF self.children # undefined
    THEN Len(self.nodes) + size(self.children.northeast)
         + size(self.children.northwest) + size(self.children.southwest)
         + size(self.children.southeast)
    ELSE Len(self.nodes)

\* the loop over this.#nodes of query: the records it pushes, in order
queryOwn(self, range) ==
    SelectSeq(self.nodes, LAMBDA n : Truthy(intersects(range, n.shape)))

\* what query pushes onto found, in the order it pushes.  queryChild is one of
\* the four if / else blocks over the children.
RECURSIVE queried(_, _)
\* queryChild collecting a contained subtree twice
queryChildTwice(child, range) ==
    IF contains(range, child.boundary)
    THEN allNodes(child) \o allNodes(child)
    ELSE queried(child, range)

queryChild(child, range) ==
    IF contains(range, child.boundary)
    THEN allNodes(child)
    ELSE queried(child, range)

queried(self, range) ==
    IF ~Truthy(intersects(self.boundary, range)) THEN <<>>
    ELSE IF self.children # undefined
         THEN queryOwn(self, range)
              \o queryChild(self.children.northeast, range)
              \o queryChild(self.children.northwest, range)
              \o queryChild(self.children.southwest, range)
              \o queryChild(self.children.southeast, range)
         ELSE queryOwn(self, range)

\* query(range, found): pushes onto the accumulator and returns it
query(self, range, found) == found \o queried(self, range)

\* clear emptying the node's own list and keeping its children
clearKeepsChildren(self) == [self EXCEPT !.nodes = <<>>]

\* clear(): the children are cleared first and then dropped, cleared, with
\* the node's only reference to them
clear(self) == [self EXCEPT !.nodes = <<>>, !.children = undefined]

\* resize without recomputing the quadrant boundaries
resizeKeepsQuadrants(self, boundary) ==
    [self EXCEPT !.nodes = <<>>, !.children = undefined, !.boundary = boundary]

resize(self, boundary) ==
    [clear(self) EXCEPT
        !.boundary = boundary,
        !.childrenBoundaries =
            calulateChildBoundaries(boundary.position.x, boundary.position.y,
                                    boundary.dimensions.x, boundary.dimensions.y)]

-----------------------------------------------------------------------------
(* Input: the keys held, kept in static fields by two window listeners.     *)
(* The record of the fields also carries the surroundings of the class:     *)
(* held, the keys that are physically down; heard, the keys whose keydown   *)
(* was delivered to the listener and whose keyup was not yet, oldest first; *)
(* now, the reading of performance.now().                                   *)

inputMap ==
    [move_up |-> <<"KeyW">>, move_right |-> <<"KeyD">>,
     move_down |-> <<"KeyS">>, move_left |-> <<"KeyA">>]

InputActions == DOMAIN inputMap

Codes == {"KeyW", "KeyD", "KeyS", "KeyA"}

\* a string value, an uncaught TypeError, and a value returned
String(code) == [tag |-> "string", value |-> code]
TypeError == [tag |-> "TypeError"]
Returned(v) == [tag |-> "value", value |-> v]

\* the class once defined: none of the static fields has an initializer
InputClass ==
    [keysPressed |-> undefined, lastKeyPressed |-> undefined,
     abortController |-> undefined, held |-> {}, heard |-> <<>>, now |-> 0]

\* get listening
listening(self) == self.abortController.tag # "undefined"

\* Input.#keysPressed[code], for an object #keysPressed: the entry or nothing
Entries(self, code) == {k \in self.keysPressed.entries : k.code = code}

\* Input.#onKeyDown; threw tells that the assignment to a property of
\* undefined raised a TypeError, after lastKeyPressed was set
onKeyDown(self, code) ==
    IF self.keysPressed.tag = "undefined"
    THEN [state |-> [self EXCEPT !.lastKeyPressed = String(code)], threw |-> TRUE]
    ELSE [state |-> [self EXCEPT
                       !.lastKeyPressed = String(code),
                       !.keysPressed.entries =
                           (@ \ Entries(self, code))
                           \cup {[code |-> code, timeStamp |-> self.now]}],
          threw |-> FALSE]

\* Input.#onKeyUp; delete on a property of undefined raises a TypeError
onKeyUp(self, code) ==
    LET cleared == IF self.lastKeyPressed = String(code)
                   THEN [self EXCEPT !.lastKeyPressed = undefined]
                   ELSE self
    IN  IF self.keysPressed.tag = "undefined"
        THEN [state |-> cleared, threw |-> TRUE]
        ELSE [state |-> [cleared EXCEPT
                           !.keysPressed.entries = @ \ Entries(self, code)],
              threw |-> FALSE]

\* Input.listen and Input.disconnect
listen(self) ==
    IF listening(self) THEN self
    ELSE [self EXCEPT !.abortController = [tag |-> "AbortController"]]

disconnect(self) ==
    IF ~listening(self) THEN self
    ELSE [self EXCEPT !.abortController = undefined]

\* the loop of Input.isActionPressed over an object #keysPressed
pressed(self, action) ==
    \E i \in 1..Len(inputMap[action]) : Entries(self, inputMap[action][i]) # {}

\* Input.isActionPressed: reading a property of undefined raises a TypeError
isActionPressed(self, action) ==
    IF self.keysPressed.tag = "undefined" THEN TypeError
    ELSE Returned(pressed(self, action))

\* Math.max(...timestamps) of the keys of an action that are pressed
latest(self, action) ==
    CHOOSE t \in {k.timeStamp : k \in {e \in self.keysPressed.entries :
                       \E i \in 1..Len(inputMap[action]) : e.code = inputMap[action][i]}} :
        \A e \in self.keysPressed.entries :
            (\E i \in 1..Len(inputMap[action]) : e.code = inputMap[action][i])
            => e.timeStamp <= t

\* the comparison of Input.isActionPressedAfterAction, for an object
\* #keysPressed
pressedAfter(self, action, action2) ==
    /\ pressed(self, action)
    /\ pressed(self, action2)
    /\ latest(self, action) > latest(self, action2)

isActionPressedAfterAction(self, action, action2) ==
    IF self.keysPressed.tag = "undefined" THEN TypeError
    ELSE Returned(pressedAfter(self, action, action2))

\* one axis of Input.getVector: minus is left or up, plus is right or down
axis(self, minus, plus) ==
    IF pressedAfter(self, minus, plus) THEN -1
    ELSE IF pressedAfter(self, plus, minus) THEN 1
    ELSE IF pressed(self, minus) THEN -1
    ELSE IF pressed(self, plus) THEN 1
    ELSE 0

\* Input.getVector: its first call of isActionPressed raises the TypeError
getVector(self, upAction, rightAction, downAction, leftAction) ==
    IF self.keysPressed.tag = "undefined" THEN TypeError
    ELSE Returned(Vector2D(axis(self, leftAction, rightAction),
                           axis(self, upAction, downAction)))

-----------------------------------------------------------------------------
(* The tree in use: one root, driven by its public operations *)

\* at most this many insert calls between two clear() / resize() calls
MaxInserts == 2

Boundary0 == Rect(0, 0, 256, 256)
Boundary1 == Rect(128, 128, 256, 256)

Boundaries == {Boundary0, Boundary1}

InsertShapes ==
    { Point(Vector2D(0, 0)),
      Point(Vector2D(128, 128)),
      Rect(0, 0, 2, 2),
      Rect(0, 0, 256, 256),
      Rect(100, 100, 56, 56),
      Rect(130, 10, 100, 100),
      Rect(200, 200, 100, 100),
      Rect(300, 300, 10, 10),
      Line(Vector2D(10, 10), Vector2D(20, 250)),
      Triangle(Vector2D(140, 20), Vector2D(240, 20), Vector2D(190, 100)),
      Ray(Vector2D(10, 10), Vector2D(1, 0)) }

QueryRanges ==
    { Boundary0,
      Boundary1,
      Rect(0, 0, 128, 128),
      Rect(64, 64, 128, 128),
      Rect(300, 300, 10, 10),
      Point(Vector2D(0, 0)) }

none == [tag |-> "none"]

Call(op, arg, ret) == [op |-> op, arg |-> arg, ret |-> ret, before |-> size(tree)]

Init ==
    /\ tree = QuadTree(Boundary0, 0)
    /\ given = Boundary0
    /\ inserted = <<>>
    /\ input = InputClass
    /\ last = [op |-> "new", arg |-> Boundary0, ret |-> none, before |-> 0]

\* tree.insert(new QuadTreeNode(shape)); inserted logs the call and its result
Insert ==
    /\ Len(inserted) < MaxInserts
    /\ \E shape \in InsertShapes :
          LET node == QuadTreeNode(Len(inserted) + 1, shape)
              r == insert(tree, node)
          IN  /\ tree' = r.tree
              /\ inserted' = Append(inserted, [node |-> node, ret |-> r.ret])
              /\ last' = Call("insert", shape, r.ret)
    /\ UNCHANGED <<given, input>>

\* tree.query(range), with the default empty accumulator
Query ==
    /\ \E range \in QueryRanges :
          last' = Call("query", range, query(tree, range, <<>>))
    /\ UNCHANGED <<tree, given, inserted, input>>

\* tree.subdivide(), public like the rest
Subdivide ==
    /\ tree' = subdivide(tree)
    /\ last' = Call("subdivide", none, none)
    /\ UNCHANGED <<given, inserted, input>>

Clear ==
    /\ tree' = clear(tree)
    /\ inserted' = <<>>
    /\ last' = Call("clear", none, none)
    /\ UNCHANGED <<given, input>>

Resize ==
    /\ \E boundary \in Boundaries :
          /\ tree' = resize(tree, boundary)
          /\ given' = boundary
          /\ last' = Call("resize", boundary, none)
    /\ inserted' = <<>>
    /\ UNCHANGED input

Next == Insert \/ Query \/ Subdivide \/ Clear \/ Resize

Spec == Init /\ [][Next]_vars

-----------------------------------------------------------------------------
(* The kernel in use: overlaps and contains applied to a pair of shapes.    *)
(* The pair is last.arg; the tree is not touched.  Sides of the lines and   *)
(* triangles have squared lengths that are powers of two, so the parameter  *)
(* of a projection is exact in an IEEE double.                              *)

\* the greatest coordinate, width, height and radius of the generated shapes
MaxCoord == 2

Coords == 0..MaxCoord
GridPoints == {Vector2D(x, y) : x \in Coords, y \in Coords}

GridRectangles ==
    {Rectangle(p, Vector2D(w, h)) : p \in GridPoints, w \in Coords, h \in Coords}

GridCircles == {Circle(p, r) : p \in GridPoints, r \in 1..MaxCoord}

GridTriangles == {Triangle(a, b, c) : a \in GridPoints, b \in GridPoints, c \in GridPoints}

\* shapes of every variant, within 0..4 on both axes
KindShapes ==
    { Point(Vector2D(0, 0)), Point(Vector2D(1, 1)), Point(Vector2D(2, 0)),
      Point(Vector2D(4, 4)),
      Line(Vector2D(0, 0), Vector2D(2, 2)), Line(Vector2D(0, 2), Vector2D(2, 0)),
      Line(Vector2D(0, 0), Vector2D(4, 0)), Line(Vector2D(3, 0), Vector2D(3, 4)),
      Line(Vector2D(1, 1), Vector2D(1, 1)),
      Rect(0, 0, 2, 2), Rect(2, 2, 2, 2), Rect(1, 1, 3, 3), Rect(3, 3, 1, 1),
      Circle(Vector2D(0, 0), 1), Circle(Vector2D(1, 1), 1),
      Circle(Vector2D(3, 1), 1), Circle(Vector2D(4, 4), 2),
      Triangle(Vector2D(0, 0), Vector2D(4, 0), Vector2D(0, 4)),
      Triangle(Vector2D(0, 0), Vector2D(0, 4), Vector2D(4, 0)),
      Triangle(Vector2D(2, 2), Vector2D(4, 2), Vector2D(2, 4)),
      Ray(Vector2D(0, 0), Vector2D(1, 0)), Ray(Vector2D(0, 0), Vector2D(1, 1)) }

\* triangles with nine-digit coordinates: the products of
\* Triangle.#containsPoint exceed the 53 bits of a double
LargeTriangles ==
    { Triangle(Vector2D(0, 0), Vector2D(100000000, 0), Vector2D(0, 100000000)),
      Triangle(Vector2D(69833106, 120379193), Vector2D(103145805, 92555821),
               Vector2D(41550389, 131441668)),
      Triangle(Vector2D(202460878, 174950835), Vector2D(147831445, 10504413),
               Vector2D(257560250, 239695949)) }

Large(s) == s.kind = "Triangle" /\ s \in LargeTriangles

\* each large triangle with an equal copy of itself
LargePairs == {<<t, t>> : t \in LargeTriangles}

\* lines and circles that cross, and lines with the points of the grid
GridLines == {Line(a, b) : a \in GridPoints, b \in GridPoints}

KindLines == {s \in KindShapes : s.kind = "Line"}

DiagonalLines ==
    { Line(Vector2D(0, 0), Vector2D(10, 10)), Line(Vector2D(0, 10), Vector2D(10, 0)) }

\* pairs of circles whose centres are a whole distance apart and whose chord
\* has a rational half length
ChordPairs ==
    { <<Circle(Vector2D(0, 0), 5), Circle(Vector2D(8, 0), 5)>>,
      <<Circle(Vector2D(8, 0), 5), Circle(Vector2D(0, 0), 5)>>,
      <<Circle(Vector2D(0, 0), 5), Circle(Vector2D(0, 8), 5)>>,
      <<Circle(Vector2D(1, 1), 5), Circle(Vector2D(9, 1), 5)>>,
      <<Circle(Vector2D(2, 3), 5), Circle(Vector2D(2, 9), 5)>>,
      <<Circle(Vector2D(0, 0), 2), Circle(Vector2D(2, 0), 2)>>,
      <<Circle(Vector2D(0, 0), 1), Circle(Vector2D(2, 0), 1)>>,
      <<Circle(Vector2D(0, 0), 1), Circle(Vector2D(4, 0), 1)>>,
      <<Circle(Vector2D(0, 0), 4), Circle(Vector2D(1, 0), 1)>>,
      <<Circle(Vector2D(1, 1), 2), Circle(Vector2D(1, 1), 2)>> }

CrossPairs ==
    (KindLines \X GridLines)
    \cup (DiagonalLines \X DiagonalLines)
    \cup ChordPairs
    \cup {<<l, Point(p)>> : l \in KindLines \cup DiagonalLines, p \in GridPoints}

\* the pairs (receiver, argument) the operations are applied to
GeoPairs ==
    (KindShapes \X KindShapes)
    \cup (GridRectangles \X GridRectangles)
    \cup (GridCircles \X GridRectangles)
    \cup (GridRectangles \X GridCircles)
    \cup {<<s, s>> : s \in GridCircles \cup GridTriangles}

GeoInit ==
    /\ tree = QuadTree(Boundary0, 0)
    /\ given = Boundary0
    /\ inserted = <<>>
    /\ input = InputClass
    /\ \E pair \in GeoPairs \cup LargePairs \cup CrossPairs :
          last = [op |-> "shapes", arg |-> pair, ret |-> none]

\* a.overlaps(b) for the pair <<a, b>>; the large triangles are asked
\* contains only
Overlaps ==
    /\ ~Large(last.arg[1])
    /\ last' = [op |-> "overlaps", arg |-> last.arg,
                ret |-> overlaps(last.arg[1], last.arg[2])]
    /\ UNCHANGED <<tree, given, inserted, input>>

\* a.contains(b) for the pair <<a, b>>
Contains ==
    /\ last' = [op |-> "contains", arg |-> last.arg,
                ret |-> contains(last.arg[1], last.arg[2])]
    /\ UNCHANGED <<tree, given, inserted, input>>

\* a.intersects(b) for two lines and for the crossing circles
Intersects ==
    /\ \/ last.arg[1].kind = "Line" /\ last.arg[2].kind = "Line"
       \/ /\ last.arg[1].kind = "Circle" /\ last.arg[2].kind = "Circle"
          /\ last.arg \in ChordPairs
    /\ last' = [op |-> "intersects", arg |-> last.arg,
                ret |-> intersects(last.arg[1], last.arg[2])]
    /\ UNCHANGED <<tree, given, inserted, input>>

\* line.side(p) for a line and the position of a point
Side ==
    /\ last.arg[1].kind = "Line" /\ last.arg[2].kind = "Point"
    /\ last' = [op |-> "side", arg |-> last.arg,
                ret |-> lineSide(last.arg[1], last.arg[2].position)]
    /\ UNCHANGED <<tree, given, inserted, input>>

GeoNext == Overlaps \/ Contains \/ Intersects \/ Side

GeoSpec == GeoInit /\ [][GeoNext]_vars

-----------------------------------------------------------------------------
(* Vector2D in use: clamp, eq and neq applied to vectors of the grid.  The  *)
(* triple <<self, min, max>> is last.arg; eq and neq take self and min.     *)

VecInit ==
    /\ tree = QuadTree(Boundary0, 0)
    /\ given = Boundary0
    /\ inserted = <<>>
    /\ input = InputClass
    /\ \E a \in GridPoints, min \in GridPoints, max \in GridPoints :
          last = [op |-> "vectors", arg |-> <<a, min, max>>, ret |-> none]

\* self.clamp(min, max)
Clamp ==
    /\ last' = [op |-> "clamp", arg |-> last.arg,
                ret |-> vectorClamp(last.arg[1], last.arg[2], last.arg[3])]
    /\ UNCHANGED <<tree, given, inserted, input>>

\* self.eq(v)
Eq ==
    /\ last' = [op |-> "eq", arg |-> last.arg, ret |-> eq(last.arg[1], last.arg[2])]
    /\ UNCHANGED <<tree, given, inserted, input>>

\* self.neq(v)
Neq ==
    /\ last' = [op |-> "neq", arg |-> last.arg, ret |-> neq(last.arg[1], last.arg[2])]
    /\ UNCHANGED <<tree, given, inserted, input>>

VecNext == Clamp \/ Eq \/ Neq

VecSpec == VecInit /\ [][VecNext]_vars

-----------------------------------------------------------------------------
(* lib/movement.  Positions and speeds are doubles that are multiples of    *)
(* 0.5, held as their count of halves: adding, subtracting and comparing    *)
(* such doubles rounds as it does on the counts.                            *)

\* from < to on doubles
dLess(x, y) == dNegative(dSub(x, y))

\* Math.min and Math.max on doubles
dMin(x, y) == IF dLeq(x, y) THEN x ELSE y
dMax(x, y) == IF dLeq(y, x) THEN x ELSE y

\* moveToward without the Math.min and Math.max that stop at to
moveTowardUnbounded(from, to, delta) ==
    IF dLess(from, to) THEN dAdd(from, delta) ELSE dSub(from, delta)

moveToward(from, to, delta) ==
    IF dLess(from, to)
    THEN dMin(dAdd(from, delta), to)
    ELSE dMax(dSub(from, delta), to)

\* the greatest position and speed of the generated calls, in halves, and
\* the number of calls made in a row
MaxPosition == 6
MaxDelta == 3
MaxIterations == 22

\* 2^53, above which a double is no longer every whole number
TwoTo53 == [neg |-> FALSE, mag |-> <<0, 0, 0, 2^11, 0>>]

\* <<from, to, delta>>: the grid, 10 toward 0 at speed 0.5, and positions
\* at and above 2^53
MoveInputs ==
    { <<dInt(f), dInt(t), dInt(d)>> :
        f \in (0 - MaxPosition)..MaxPosition, t \in (0 - MaxPosition)..MaxPosition,
        d \in 1..MaxDelta }
    \cup { <<dInt(20), dInt(0), dInt(1)>>,
           <<TwoTo53, dAdd(TwoTo53, dInt(4)), dInt(1)>>,
           <<dAdd(TwoTo53, dInt(4)), TwoTo53, dInt(1)>>,
           <<dAdd(TwoTo53, dInt(8)), dInt(0), dInt(3)>> }

MoveInit ==
    /\ tree = QuadTree(Boundary0, 0)
    /\ given = Boundary0
    /\ inserted = <<>>
    /\ input = InputClass
    /\ \E call \in MoveInputs :
          last = [op |-> "moveToward", arg |-> call, newPos |-> call[1],
                  iterations |-> 0]

\* newPos = moveToward(newPos, finalVel, speed); iterations++
MoveToward ==
    /\ last.iterations < MaxIterations
    /\ last' = [last EXCEPT
                  !.newPos = moveToward(last.newPos, last.arg[2], last.arg[3]),
                  !.iterations = last.iterations + 1]
    /\ UNCHANGED <<tree, given, inserted, input>>

MoveNext == MoveToward

MoveSpec == MoveInit /\ [][MoveNext]_vars

-----------------------------------------------------------------------------
(* Input in use: the page listens and stops listening, keys go down and up, *)
(* and the game asks for an action and for the direction vector.            *)

\* the greatest reading of the clock
MaxTime == 2

Without(seq, code) == SelectSeq(seq, LAMBDA k : k # code)

InputInit ==
    /\ tree = QuadTree(Boundary0, 0)
    /\ given = Boundary0
    /\ inserted = <<>>
    /\ input = InputClass
    /\ last = [op |-> "class", arg |-> none, ret |-> none]

Listen ==
    /\ input' = listen(input)
    /\ last' = [op |-> "listen", arg |-> none, ret |-> none]
    /\ UNCHANGED <<tree, given, inserted>>

Disconnect ==
    /\ input' = disconnect(input)
    /\ last' = [op |-> "disconnect", arg |-> none, ret |-> none]
    /\ UNCHANGED <<tree, given, inserted>>

\* a key that is up goes down, no earlier than the last reading of the clock;
\* the window calls #onKeyDown if the listener is registered, and an error
\* the listener raises is reported and goes no further
KeyDown ==
    /\ \E code \in Codes \ input.held, tick \in {0, 1} :
          /\ input.now + tick <= MaxTime
          /\ LET window == [input EXCEPT !.held = @ \cup {code}, !.now = @ + tick]
             IN  IF listening(input)
                 THEN /\ input' = [onKeyDown(window, code).state EXCEPT
                                     !.heard = Append(Without(@, code), code)]
                      /\ last' = [op |-> "keydown", arg |-> code,
                                  ret |-> IF onKeyDown(window, code).threw
                                          THEN TypeError ELSE none]
                 ELSE /\ input' = window
                      /\ last' = [op |-> "keydown", arg |-> code, ret |-> none]
    /\ UNCHANGED <<tree, given, inserted>>

\* a key that is down goes up; the window calls #onKeyUp if the listener is
\* registered
KeyUp ==
    /\ \E code \in input.held :
          LET window == [input EXCEPT !.held = @ \ {code}]
          IN  IF listening(input)
              THEN /\ input' = [onKeyUp(window, code).state EXCEPT
                                  !.heard = Without(@, code)]
                   /\ last' = [op |-> "keyup", arg |-> code,
                               ret |-> IF onKeyUp(window, code).threw
                                       THEN TypeError ELSE none]
              ELSE /\ input' = window
                   /\ last' = [op |-> "keyup", arg |-> code, ret |-> none]
    /\ UNCHANGED <<tree, given, inserted>>

IsActionPressed ==
    /\ \E action \in InputActions :
          last' = [op |-> "isActionPressed", arg |-> action,
                   ret |-> isActionPressed(input, action)]
    /\ UNCHANGED <<tree, given, inserted, input>>

\* Input.getVector("move_up", "move_right", "move_down", "move_left")
GetVector ==
    /\ last' = [op |-> "getVector",
                arg |-> <<"move_up", "move_right", "move_down", "move_left">>,
                ret |-> getVector(input, "move_up", "move_right", "move_down",
                                  "move_left")]
    /\ UNCHANGED <<tree, given, inserted, input>>

InputNext ==
    Listen \/ Disconnect \/ KeyDown \/ KeyUp \/ IsActionPressed \/ GetVector

InputSpec == InputInit /\ [][InputNext]_vars

-----------------------------------------------------------------------------
(* Geometry of the claims, stated on point sets and not through the kernel *)

\* the corner points of a bounded shape
Vertices(s) ==
    CASE s.kind = "Point" -> {s.position}
      [] s.kind = "Line" -> {s.start, s.end}
      [] s.kind = "Rectangle" ->
            {Vector2D(s.position.x + dx, s.position.y + dy) :
                dx \in {0, s.dimensions.x}, dy \in {0, s.dimensions.y}}
      [] s.kind = "Triangle" -> {s.position[1], s.position[2], s.position[3]}
      [] s.kind = "Ray" -> {s.origin}

\* the point p lies in the closed rectangle b
InRect(b, p) ==
    /\ b.position.x <= p.x /\ p.x <= b.position.x + b.dimensions.x
    /\ b.position.y <= p.y /\ p.y <= b.position.y + b.dimensions.y

\* every point of s lies in the closed rectangle b: s is bounded and, being
\* convex, lies in b when its corners do
Inside(b, s) == s.kind # "Ray" /\ \A p \in Vertices(s) : InRect(b, p)

\* the least and greatest coordinates of s; a ray reaches past every boundary
\* of the model in the direction it points
Extent(s) ==
    LET far == IF s.kind = "Ray" THEN {addBy(s.origin, Vector2D(s.direction.x * 4096, s.direction.y * 4096))}
               ELSE {}
        ps == Vertices(s) \cup far
    IN  [xmin |-> CHOOSE a \in {p.x : p \in ps} : \A p \in ps : a <= p.x,
         xmax |-> CHOOSE a \in {p.x : p \in ps} : \A p \in ps : a >= p.x,
         ymin |-> CHOOSE a \in {p.y : p \in ps} : \A p \in ps : a <= p.y,
         ymax |-> CHOOSE a \in {p.y : p \in ps} : \A p \in ps : a >= p.y]

\* s lies entirely outside the closed rectangle b: a line x = c or y = c
\* separates them (exact for points and rectangles)
EntirelyOutside(b, s) ==
    LET e == Extent(s)
    IN  \/ e.xmax < b.position.x \/ e.xmin > b.position.x + b.dimensions.x
        \/ e.ymax < b.position.y \/ e.ymin > b.position.y + b.dimensions.y

\* s and the closed rectangle b share a point: a corner of s lies in b, or s
\* is a rectangle that overlaps b
SharesPoint(b, s) ==
    \/ \E p \in Vertices(s) : InRect(b, p)
    \/ s.kind = "Rectangle" /\ ~EntirelyOutside(b, s)

\* every node of the tree: the root with all its descendants
RECURSIVE Subtrees(_)
Subtrees(self) ==
    IF self.children # undefined
    THEN {self} \cup Subtrees(self.children.northeast)
                \cup Subtrees(self.children.northwest)
                \cup Subtrees(self.children.southwest)
                \cup Subtrees(self.children.southeast)
    ELSE {self}

\* the elements of a sequence
Range(seq) == {seq[i] : i \in 1..Len(seq)}

\* how often x occurs in seq
Count(seq, x) == Cardinality({i \in 1..Len(seq) : seq[i] = x})

-----------------------------------------------------------------------------
(* QuadTree claims *)

\* C1: after a sequence of insert calls on a fresh (or just cleared or resized)
\* tree whose shapes all lie inside the root boundary, every insert returned
\* true, size() is the number of inserts and getAllNodes() holds exactly the
\* inserted records, each once.
C1_Conservation ==
    (\A i \in 1..Len(inserted) : Inside(given, inserted[i].node.shape)) =>
        /\ \A i \in 1..Len(inserted) : inserted[i].ret = TRUE
        /\ size(tree) = Len(inserted)
        /\ Len(getAllNodes(tree, <<>>)) = Len(inserted)
        /\ \A i \in 1..Len(inserted) :
              Count(getAllNodes(tree, <<>>), inserted[i].node) = 1

\* two records inserted, kept by different nodes of a subdivided tree
C1_Witness ==
    /\ Len(inserted) >= 2
    /\ \A i \in 1..Len(inserted) : Inside(given, inserted[i].node.shape)
    /\ tree.children # undefined
    /\ Len(tree.nodes) = 1
    /\ size(tree) = 2

\* C2: insert of a shape entirely outside the root boundary returns false and
\* leaves size() as it was.
C2_OutsideRejected ==
    (last.op = "insert" /\ EntirelyOutside(given, last.arg)) =>
        (last.ret = FALSE /\ size(tree) = last.before)

\* an outside shape was refused by a tree that holds a record below the root
C2_Witness ==
    /\ last.op = "insert"
    /\ EntirelyOutside(given, last.arg)
    /\ last.ret = FALSE
    /\ size(tree) = 1
    /\ tree.children # undefined

\* C3 as stated: insert is refused only when the shape lies entirely outside
\* the root boundary, so a shape sharing a point with it is never refused.
C3_NeverRejectedWhenTouching ==
    (last.op = "insert" /\ SharesPoint(given, last.arg)) => last.ret = TRUE

\* C3 as amended: insert on the root returns false exactly when the shape does
\* not lie entirely inside the root boundary; a shape straddling the root's
\* edge is refused like one entirely outside.
C3_RejectedIffNotInside ==
    last.op = "insert" => (last.ret = FALSE <=> ~Inside(given, last.arg))

\* a shape partly inside and partly outside the root boundary was refused
C3_Witness ==
    /\ last.op = "insert"
    /\ SharesPoint(given, last.arg)
    /\ ~Inside(given, last.arg)
    /\ last.arg.kind = "Rectangle"
    /\ last.ret = FALSE

\* the records query collects through the full-containment shortcut
RECURSIVE ShortcutRecords(_, _)
ShortcutRecords(self, range) ==
    IF self.children = undefined THEN {}
    ELSE UNION { IF contains(range, self.children[q].boundary)
                 THEN Range(allNodes(self.children[q]))
                 ELSE ShortcutRecords(self.children[q], range) :
                 q \in Range(Quadrants) }

\* C4: every record query returns either has a shape with at least one
\* intersection point with the range, or was collected through the
\* full-containment shortcut of a child subtree.
C4_OnlyMatchingRecords ==
    last.op = "query" =>
        \A r \in Range(last.ret) :
            \/ Len(intersects(last.arg, r.shape)) > 0
            \/ r \in ShortcutRecords(tree, last.arg)

\* C5: a query whose range is disjoint from the root boundary, so that the
\* boundary has no intersection point with it, returns the accumulator as it
\* was given: empty.
C5_DisjointRangePruned ==
    ( /\ last.op = "query"
      /\ EntirelyOutside(tree.boundary, last.arg)
      /\ Len(intersects(tree.boundary, last.arg)) = 0 )
    => last.ret = <<>>

\* C6: query with the root boundary as range returns every record the tree
\* holds: every record inserted with success since the last clear or resize.
C6_RootRangeReturnsAll ==
    (last.op = "query" /\ last.arg = tree.boundary) =>
        /\ \A i \in 1..Len(inserted) :
              inserted[i].ret = TRUE => inserted[i].node \in Range(last.ret)
        /\ \A r \in Range(allNodes(tree)) : r \in Range(last.ret)

\* the root range was queried on a subdivided tree holding two records, one of
\* them strictly inside the range
C6_Witness ==
    /\ last.op = "query"
    /\ last.arg = tree.boundary
    /\ tree.children # undefined
    /\ Len(last.ret) = 2
    /\ \E r \in Range(last.ret) : Len(intersects(last.arg, r.shape)) = 0

\* C7: every record kept by a node lies inside the node's boundary and, unless
\* the node is at the last layer, inside none of its four quadrants.
C7_DeepestFit ==
    \A n \in Subtrees(tree) :
        \A r \in Range(n.nodes) :
            /\ Inside(n.boundary, r.shape)
            /\ \/ n.depthLayer + 1 >= MAX_DEPTH
               \/ \A q \in Range(Quadrants) : ~Inside(n.childrenBoundaries[q], r.shape)

\* a record held at the last layer although a quadrant contains it, and one
\* held at the root because it straddles the split
C7_Witness ==
    /\ \E n \in Subtrees(tree) :
          /\ n.depthLayer + 1 = MAX_DEPTH
          /\ \E r \in Range(n.nodes), q \in Range(Quadrants) :
                Inside(n.childrenBoundaries[q], r.shape)
    /\ Len(tree.nodes) = 1

\* C8: the root has depthLayer 0, a node has no children or the four children
\* northeast, northwest, southwest and southeast, each one layer below it, and
\* no node reaches layer MAX_DEPTH.
C8_Structure ==
    /\ tree.depthLayer = 0
    /\ \A n \in Subtrees(tree) :
          /\ n.depthLayer < MAX_DEPTH
          /\ \/ n.children = undefined
             \/ /\ DOMAIN n.children = Range(Quadrants)
                /\ \A q \in Range(Quadrants) :
                      n.children[q].depthLayer = n.depthLayer + 1

\* a childless node at the last layer below seven subdivided ones
C8_Witness ==
    \E n \in Subtrees(tree) :
        /\ n.depthLayer = MAX_DEPTH - 1
        /\ n.children = undefined
        /\ Len(n.nodes) > 0

\* C9: right after clear() size() is 0, getAllNodes() is empty, the root has no
\* children, and its boundary and quadrant boundaries are what they were.
C9_Clear ==
    [][ last'.op = "clear" =>
            /\ size(tree') = 0
            /\ getAllNodes(tree', <<>>) = <<>>
            /\ tree'.children = undefined
            /\ tree'.boundary = tree.boundary
            /\ tree'.childrenBoundaries = tree.childrenBoundaries ]_vars

\* clear() was called on a tree holding two records
C9_Witness ==
    /\ last.op = "clear"
    /\ last.before = 2
    /\ size(tree) = 0

\* C10: right after resize(b) the tree is empty and childless with boundary b,
\* and an insert is accepted exactly when b, the boundary given last, contains
\* the shape.
C10_Resize ==
    /\ last.op = "resize" =>
          /\ size(tree) = 0
          /\ tree.children = undefined
          /\ tree.boundary = last.arg
    /\ last.op = "insert" =>
          (last.ret = TRUE <=> contains(given, last.arg))

\* after a resize away from the first boundary, a shape inside the new
\* boundary and outside the old one was accepted
C10_Witness ==
    /\ given # Boundary0
    /\ last.op = "insert"
    /\ last.ret = TRUE
    /\ ~Inside(Boundary0, last.arg)
    /\ \E i \in 1..Len(inserted) :
          /\ Inside(Boundary0, inserted[i].node.shape)
          /\ inserted[i].ret = FALSE

\* the quadrant names in the order northeast, northwest, southwest, southeast
CompassOrder == <<"northeast", "northwest", "southwest", "southeast">>

\* the records stored in the node self or below it
RecordsOf(self) == UNION {Range(n.nodes) : n \in Subtrees(self)}

\* C11: in every node the quadrant boundaries bisect the node's boundary: each
\* has half its width and half its height, northwest sits at its position,
\* northeast to the right of northwest, southwest below northwest, southeast
\* below northeast; so they tile it.  A child's boundary is the quadrant
\* boundary of the same name, and the root's boundary is the one given last.
C11_ChildBoundaries ==
    /\ tree.boundary = given
    /\ \A n \in Subtrees(tree) :
          LET b == n.boundary
              cb == n.childrenBoundaries
          IN  /\ DOMAIN cb = Range(CompassOrder)
              /\ \A q \in Range(CompassOrder) :
                    /\ 2 * cb[q].dimensions.x = b.dimensions.x
                    /\ 2 * cb[q].dimensions.y = b.dimensions.y
              /\ cb.northwest.position = b.position
              /\ cb.northeast.position =
                    Vector2D(b.position.x + cb.northwest.dimensions.x, b.position.y)
              /\ cb.southwest.position =
                    Vector2D(b.position.x, b.position.y + cb.northwest.dimensions.y)
              /\ cb.southeast.position =
                    Vector2D(cb.northeast.position.x, cb.southwest.position.y)
              /\ n.children # undefined =>
                    \A q \in Range(CompassOrder) :
                        n.children[q].boundary = cb[q]

\* after a resize to the second boundary an insert has subdivided the tree at
\* least two layers deep
C11_Witness ==
    /\ given = Boundary1
    /\ last.op = "insert"
    /\ \E n \in Subtrees(tree) : n.depthLayer >= 2

\* C12: a record stored in the subtree of a quadrant has a shape that lies in
\* none of the quadrants tested before it, in the order northeast, northwest,
\* southwest, southeast; and an accepted record is stored once.
C12_TieBreak ==
    /\ \A n \in Subtrees(tree) :
          n.children # undefined =>
              \A i \in 1..Len(CompassOrder) :
                  \A r \in RecordsOf(n.children[CompassOrder[i]]) :
                      \A j \in 1..(i - 1) :
                          ~Inside(n.childrenBoundaries[CompassOrder[j]], r.shape)
    /\ \A i \in 1..Len(inserted) :
          inserted[i].ret = TRUE =>
              Count(getAllNodes(tree, <<>>), inserted[i].node) = 1

\* the point at the centre of the root boundary lies in all four quadrants and
\* is stored below the northeast child only
C12_Witness ==
    /\ tree.children # undefined
    /\ \E r \in RecordsOf(tree.children.northeast) :
          /\ r.shape.kind = "Point"
          /\ \A q \in Range(CompassOrder) :
                Inside(tree.childrenBoundaries[q], r.shape)
          /\ \A q \in Range(CompassOrder) \ {"northeast"} :
                r \notin RecordsOf(tree.children[q])

\* the node new keeps what the node old had: its boundary, its records as a
\* prefix of its own, and, where old has children, four children that keep
\* what old's had
RECURSIVE Kept(_, _)
Kept(old, new) ==
    /\ new.boundary = old.boundary
    /\ Len(new.nodes) >= Len(old.nodes)
    /\ SubSeq(new.nodes, 1, Len(old.nodes)) = old.nodes
    /\ old.children # undefined =>
          /\ new.children # undefined
          /\ \A q \in Range(CompassOrder) :
                Kept(old.children[q], new.children[q])

\* C13: a call of insert, query or subdivide removes no child and no stored
\* record, and size() does not decrease across it.
C13_NoCollapse ==
    [][ last'.op \in {"insert", "query", "subdivide"} =>
            /\ Kept(tree, tree')
            /\ size(tree') >= size(tree) ]_vars

\* an insert into a tree that had children and one record was accepted
C13_Witness ==
    /\ last.op = "insert"
    /\ last.ret = TRUE
    /\ last.before = 1
    /\ size(tree) = 2
    /\ \E n \in Subtrees(tree) : n.children # undefined /\ Len(n.nodes) > 0

\* where every record of the subtree self is stored: the quadrants on the way
\* from self to its node, as their places in CompassOrder, and its index there
RECURSIVE Located(_, _)
Located(self, path) ==
    {[rec |-> self.nodes[i], path |-> path, idx |-> i] : i \in 1..Len(self.nodes)}
    \cup IF self.children # undefined
         THEN UNION {Located(self.children[CompassOrder[k]], Append(path, k)) :
                        k \in 1..Len(CompassOrder)}
         ELSE {}

\* a comes before b in pre-order: earlier in the same node, or in a node above
\* b's, or below an earlier quadrant where their ways part
PreOrderBefore(a, b) ==
    \/ a.path = b.path /\ a.idx < b.idx
    \/ /\ Len(a.path) < Len(b.path)
       /\ SubSeq(b.path, 1, Len(a.path)) = a.path
    \/ \E k \in 1..Len(a.path) :
          /\ k <= Len(b.path)
          /\ SubSeq(a.path, 1, k - 1) = SubSeq(b.path, 1, k - 1)
          /\ a.path[k] < b.path[k]

\* accumulators handed to getAllNodes: the default one and one with an element
Accumulators == {<<>>, <<QuadTreeNode(0, Point(Vector2D(1, 1)))>>}

\* C14: getAllNodes(acc) returns acc followed by the records of the tree, each
\* once, in pre-order, and size() is the number of records appended.
C14_PreOrder ==
    \A acc \in Accumulators :
        LET out == getAllNodes(tree, acc)
            app == SubSeq(out, Len(acc) + 1, Len(out))
            at(r) == CHOOSE l \in Located(tree, <<>>) : l.rec = r
        IN  /\ Len(out) >= Len(acc)
            /\ SubSeq(out, 1, Len(acc)) = acc
            /\ size(tree) = Len(app)
            /\ Range(app) = RecordsOf(tree)
            /\ \A i, j \in 1..Len(app) :
                  i < j => PreOrderBefore(at(app[i]), at(app[j]))

\* two records, one in the root and one below a child, or in two children
C14_Witness ==
    /\ size(tree) = 2
    /\ tree.children # undefined
    /\ \/ Len(tree.nodes) = 1
       \/ \E p, q \in Range(CompassOrder) :
             /\ p # q
             /\ size(tree.children[p]) = 1
             /\ size(tree.children[q]) = 1

\* the nodes of new that have children where the node of old with the same
\* boundary has none or does not exist
GainedChildren(old, new) ==
    { n \in Subtrees(new) :
        /\ n.children # undefined
        /\ \A o \in Subtrees(old) : o.boundary = n.boundary => o.children = undefined }

\* C27: an insert that returns false leaves the whole tree as it was, and an
\* insert that gives children to a node returns true and stores the record
\* in the subtree of that node.
C27_RejectedInsertFrame ==
    [][ last'.op = "insert" =>
          /\ last'.ret = FALSE => tree' = tree
          /\ \A n \in GainedChildren(tree, tree') :
                /\ last'.ret = TRUE
                /\ inserted'[Len(inserted')].node \in RecordsOf(n) ]_vars

\* an insert was rejected by a tree that has children and holds a record
C27_Witness ==
    /\ last.op = "insert"
    /\ last.ret = FALSE
    /\ tree.children # undefined
    /\ size(tree) = 1

\* C28: for a Rectangle range, every record query collects through the
\* shortcut over a child whose boundary the range contains is returned and
\* has a shape the range contains, and query, started with an empty
\* accumulator, returns no record twice.
C28_ShortcutSound ==
    (last.op = "query" /\ last.arg.kind = "Rectangle") =>
        /\ \A r \in ShortcutRecords(tree, last.arg) :
              /\ r \in Range(last.ret)
              /\ contains(last.arg, r.shape)
              /\ Inside(last.arg, r.shape)
        /\ \A r \in Range(last.ret) : Count(last.ret, r) = 1

\* a query collected a record of a grandchild through the shortcut and a
\* record of the root by the loop
C28_Witness ==
    /\ last.op = "query"
    /\ last.arg.kind = "Rectangle"
    /\ Len(tree.nodes) = 1
    /\ \E r \in ShortcutRecords(tree, last.arg) :
          \E n \in Subtrees(tree) : n.depthLayer >= 2 /\ r \in Range(n.nodes)
    /\ Len(last.ret) = 2

-----------------------------------------------------------------------------
(* Kernel claims, checked under GeoSpec *)

\* the integer points of the part of the plane the shapes of GeoSpec lie in
Plane == {Vector2D(x, y) : x \in 0..(2 * MaxCoord), y \in 0..(2 * MaxCoord)}

BoundedKinds == {"Point", "Line", "Rectangle", "Circle", "Triangle"}

\* C15: for two shapes a and b that are not rays, a.overlaps(b) equals
\* b.overlaps(a).
C15_OverlapsSymmetric ==
    ( /\ last.op = "overlaps"
      /\ last.arg[1].kind \in BoundedKinds
      /\ last.arg[2].kind \in BoundedKinds )
    => last.ret = overlaps(last.arg[2], last.arg[1])

\* C16: for two rectangles a and b, a.overlaps(b) equals b.overlaps(a) and is
\* true exactly when a point lies in both closed rectangles.  Rectangles with
\* integer corners share a point exactly when they share an integer point.
C16_RectangleOverlap ==
    ( /\ last.op = "overlaps"
      /\ last.arg[1].kind = "Rectangle"
      /\ last.arg[2].kind = "Rectangle" )
    => /\ last.ret = overlaps(last.arg[2], last.arg[1])
       /\ last.ret = (\E p \in Plane : InRect(last.arg[1], p) /\ InRect(last.arg[2], p))

\* two rectangles that touch along a side only were found to overlap
C16_Witness ==
    /\ last.op = "overlaps"
    /\ last.arg[1].kind = "Rectangle"
    /\ last.arg[2].kind = "Rectangle"
    /\ last.arg[1].position.x + last.arg[1].dimensions.x = last.arg[2].position.x
    /\ last.ret = TRUE

\* C17: a rectangle, a circle and a triangle each contain an equal copy of
\* themselves.
C17_ContainsReflexive ==
    ( /\ last.op = "contains"
      /\ last.arg[1].kind \in {"Rectangle", "Circle", "Triangle"}
      /\ last.arg[2].kind = last.arg[1].kind
      /\ last.arg[2] = last.arg[1] )
    => last.ret = TRUE

\* C18: Circle.contains(Rectangle) is true exactly when each of the four
\* corners of the rectangle is at most the radius away from the centre.
C18_CircleContainsRectangle ==
    ( /\ last.op = "contains"
      /\ last.arg[1].kind = "Circle"
      /\ last.arg[2].kind = "Rectangle" )
    => last.ret =
          (\A p \in Vertices(last.arg[2]) :
              magnitudeSquared(subtractBy(p, last.arg[1].position))
                  <= last.arg[1].radius * last.arg[1].radius)

\* the circle c reaches the rectangle r: some point of r is at most the radius
\* away from the centre.  For integer corners and an integer centre the
\* nearest point of r is an integer point.
Reaches(c, r) ==
    \E p \in Plane :
        /\ InRect(r, p)
        /\ magnitudeSquared(subtractBy(p, c.position)) <= c.radius * c.radius

\* C19: Circle.overlaps(Rectangle) and Rectangle.overlaps(Circle) are true
\* whenever the point of the rectangle nearest to the centre is at most the
\* radius away, the tangent case included.
C19_CircleOverlapsRectangle ==
    /\ ( /\ last.op = "overlaps"
         /\ last.arg[1].kind = "Circle"
         /\ last.arg[2].kind = "Rectangle"
         /\ Reaches(last.arg[1], last.arg[2]) )
       => last.ret = TRUE
    /\ ( /\ last.op = "overlaps"
         /\ last.arg[1].kind = "Rectangle"
         /\ last.arg[2].kind = "Circle"
         /\ Reaches(last.arg[2], last.arg[1]) )
       => last.ret = TRUE

\* C20: overlaps is false when the receiver or the argument is a ray, contains
\* is false when the argument is a ray, and a ray contains nothing but a point.
C20_Rays ==
    /\ ( /\ last.op = "overlaps"
         /\ "Ray" \in {last.arg[1].kind, last.arg[2].kind} )
       => last.ret = FALSE
    /\ ( /\ last.op = "contains"
         /\ last.arg[2].kind = "Ray" )
       => last.ret = FALSE
    /\ ( /\ last.op = "contains"
         /\ last.arg[1].kind = "Ray"
         /\ last.arg[2].kind # "Point" )
       => last.ret = FALSE

\* a ray was asked whether it overlaps a point lying on it
C20_Witness ==
    /\ last.op = "overlaps"
    /\ last.arg[1].kind = "Ray"
    /\ last.arg[2].kind = "Point"
    /\ rayContainsPoint(last.arg[1], last.arg[2])
    /\ last.ret = FALSE

\* the z component of the cross product of two plane vectors
TrueCross(a, b) == a.x * b.y - a.y * b.x

\* the parameters, along a and along b, of the point where the lines through
\* two non-parallel segments a and b meet
CrossParams(a, b) ==
    [t |-> Rat(TrueCross(subtractBy(b.start, a.start), vector(b)),
               TrueCross(vector(a), vector(b))),
     u |-> Rat(TrueCross(subtractBy(b.start, a.start), vector(a)),
               TrueCross(vector(a), vector(b)))]

InUnit(r) == RatLeq(RatInt(0), r) /\ RatLeq(r, RatInt(1))

\* two segments that are not parallel and meet in one point of both
CrossOnce(a, b) ==
    /\ TrueCross(vector(a), vector(b)) # 0
    /\ InUnit(CrossParams(a, b).t)
    /\ InUnit(CrossParams(a, b).u)

\* the point where two such segments meet
CrossPoint(a, b) ==
    [x |-> RatAdd(RatInt(a.start.x),
                  RatMul(CrossParams(a, b).t, RatInt(vector(a).x))),
     y |-> RatAdd(RatInt(a.start.y),
                  RatMul(CrossParams(a, b).t, RatInt(vector(a).y)))]

\* C21: Line.intersects(Line) on two segments that are not parallel and cross
\* in one point P of both returns exactly one point, within epsilon of P.
C21_LinesCross ==
    ( /\ last.op = "intersects"
      /\ last.arg[1].kind = "Line"
      /\ CrossOnce(last.arg[1], last.arg[2]) )
    => /\ Len(last.ret) = 1
       /\ RatNear(last.ret[1].x, CrossPoint(last.arg[1], last.arg[2]).x)
       /\ RatNear(last.ret[1].y, CrossPoint(last.arg[1], last.arg[2]).y)

\* the boundaries of two circles cross in two points: the centres are more
\* than the difference and less than the sum of the radii apart
CrossTwice(a, b) ==
    LET dist2 == magnitudeSquared(subtractBy(b.position, a.position))
    IN  /\ (a.radius - b.radius) * (a.radius - b.radius) < dist2
        /\ dist2 < (a.radius + b.radius) * (a.radius + b.radius)

\* the point p, with rational components, lies on the boundary of circle c
OnCircle(c, p) ==
    LET dx == RatSub(p.x, RatInt(c.position.x))
        dy == RatSub(p.y, RatInt(c.position.y))
    IN  RatAdd(RatMul(dx, dx), RatMul(dy, dy)) = RatInt(c.radius * c.radius)

\* p and q are distinct mirror images about the line through c and c + between
Mirrored(p, q, c, between) ==
    LET diff == subtractByRat(p, q)
        sum == subtractByRat(addByRat(p, q), multiplyRat(RatVec(c), RatInt(2)))
    IN  /\ p # q
        /\ RatAdd(RatMul(diff.x, RatInt(between.x)),
                  RatMul(diff.y, RatInt(between.y))) = RatInt(0)
        /\ RatSub(RatMul(sum.x, RatInt(between.y)),
                  RatMul(sum.y, RatInt(between.x))) = RatInt(0)

\* C22: Circle.intersects(Circle) on two circles with distinct centres whose
\* boundaries cross in two points returns exactly two points, each on both
\* circles and mirror images of each other about the line through the centres.
C22_CirclesCross ==
    ( /\ last.op = "intersects"
      /\ last.arg[1].kind = "Circle"
      /\ CrossTwice(last.arg[1], last.arg[2]) )
    => /\ Len(last.ret) = 2
       /\ \A i \in 1..2 : /\ OnCircle(last.arg[1], last.ret[i])
                          /\ OnCircle(last.arg[2], last.ret[i])
       /\ Mirrored(last.ret[1], last.ret[2], last.arg[1].position,
                   subtractBy(last.arg[2].position, last.arg[1].position))

\* the side of the line through l.start and l.end on which p lies: the sign
\* of the turn from the line's direction to p, 0 when p is on the line
Turn(l, p) ==
    LET z == TrueCross(vector(l), subtractBy(p, l.start))
    IN  IF z < 0 THEN -1 ELSE IF z > 0 THEN 1 ELSE 0

\* C25: Line.side(p) is 0 exactly when p is colinear with start and end, and
\* two points strictly on opposite sides of the line never get the same
\* result.
C25_Side ==
    ( /\ last.op = "side"
      /\ last.arg[1].start # last.arg[1].end )
    => /\ last.ret \in {-1, 0, 1}
       /\ (last.ret = 0) = (Turn(last.arg[1], last.arg[2].position) = 0)
       /\ \A q \in Plane :
             Turn(last.arg[1], q) * Turn(last.arg[1], last.arg[2].position) = -1
             => lineSide(last.arg[1], q) # last.ret

-----------------------------------------------------------------------------
(* Vector2D claims, checked under VecSpec *)

\* the greater of lo and the lesser of hi and v
Clamped(v, lo, hi) ==
    LET m == IF hi < v THEN hi ELSE v
    IN  IF lo > m THEN lo ELSE m

\* C23: Vector2D.clamp(min, max) is, componentwise, max(min, min(max, self)),
\* also where a component of min is greater than that of max.
C23_Clamp ==
    last.op = "clamp" =>
        /\ last.ret.x = Clamped(last.arg[1].x, last.arg[2].x, last.arg[3].x)
        /\ last.ret.y = Clamped(last.arg[1].y, last.arg[2].y, last.arg[3].y)

\* C30: Vector2D.neq is the negation of Vector2D.eq, and eq is exact
\* componentwise equality.
C30_NeqNegatesEq ==
    /\ last.op = "eq" => (last.ret = (last.arg[1] = last.arg[2]))
    /\ last.op = "neq" => (last.ret = (last.arg[1] # last.arg[2]))

-----------------------------------------------------------------------------
(* Movement claims, checked under MoveSpec *)

\* whole numbers, held as doubles are, added and compared without rounding
WholeAdd(x, y) ==
    IF x.neg = y.neg THEN [neg |-> x.neg, mag |-> MagAdd(x.mag, y.mag)]
    ELSE IF MagLess(x.mag, y.mag)
    THEN [neg |-> y.neg, mag |-> MagSub(y.mag, x.mag)]
    ELSE [neg |-> x.neg, mag |-> MagSub(x.mag, y.mag)]

WholeSub(x, y) == WholeAdd(x, dNeg(y))
WholeEq(x, y) == MagZero(WholeSub(x, y).mag)

\* the position n steps of length delta from from toward to, stopping at to
Toward(from, to, delta, n) ==
    LET dist == WholeSub(to, from)
        step == MagMul(MagInt(n), delta.mag)
    IN  IF MagLess(step, dist.mag)
        THEN WholeAdd(from, [neg |-> dist.neg, mag |-> step])
        ELSE to

\* from, to and delta are whole numbers of halves below 2^53
Below53(call) ==
    \A i \in 1..3 : MagLess(call[i].mag, TwoTo53.mag)

\* C24 as stated: for any from, to and delta > 0, after n calls in a row the
\* position is min(n * delta, |from - to|) closer to to, so it never
\* overshoots, reaches to after ceil(|from - to| / delta) calls and stays.
C24_ConvergesForAny ==
    WholeEq(last.newPos, Toward(last.arg[1], last.arg[2], last.arg[3], last.iterations))

\* C24, amended: the same for from, to and delta > 0 that are whole multiples
\* of one power of two and below 2^53 times it.
C24_Converges ==
    Below53(last.arg) => C24_ConvergesForAny

\* from 10 toward 0 at 0.5 has arrived at 0 with the 20th call and is still
\* there after the 22nd
C24_Witness ==
    /\ last.arg = <<dInt(20), dInt(0), dInt(1)>>
    /\ last.iterations = 22
    /\ WholeEq(last.newPos, dInt(0))
    /\ Toward(dInt(20), dInt(0), dInt(1), 1) = dInt(19)
    /\ ~WholeEq(Toward(dInt(20), dInt(0), dInt(1), 19), dInt(0))

-----------------------------------------------------------------------------
(* Input claims, checked under InputSpec *)

\* the keys bound to an action
KeysOf(action) == Range(inputMap[action])

\* the place in heard of the key of the action that went down last, 0 if none
\* of its keys is in heard
LastDown(action) ==
    IF \E i \in 1..Len(input.heard) : input.heard[i] \in KeysOf(action)
    THEN CHOOSE i \in 1..Len(input.heard) :
            /\ input.heard[i] \in KeysOf(action)
            /\ \A j \in (i + 1)..Len(input.heard) : input.heard[j] \notin KeysOf(action)
    ELSE 0

\* the component of an axis by recency: -1 for minus, 1 for plus, 0 for none
ByRecency(minus, plus) ==
    IF LastDown(minus) = 0 /\ LastDown(plus) = 0 THEN 0
    ELSE IF LastDown(minus) > LastDown(plus) THEN -1 ELSE 1

\* C26: Input.getVector resolves opposing keys by recency: on each axis the
\* component follows the held action whose key went down last, is 0 when
\* neither is held, and is always in {-1, 0, 1}.
C26_VectorByRecency ==
    ( /\ last.op = "getVector"
      /\ listening(input)
      /\ Range(input.heard) = input.held )
    => /\ last.ret.tag = "value"
       /\ last.ret.value.x = ByRecency("move_left", "move_right")
       /\ last.ret.value.y = ByRecency("move_up", "move_down")

\* C29: while listening, isActionPressed(a) is true when a key bound to a has
\* gone down and not yet up, and false when no key bound to a is down.
C29_HeldKeysTracked ==
    ( /\ last.op = "isActionPressed"
      /\ listening(input) )
    => /\ last.ret.tag = "value"
       /\ (KeysOf(last.arg) \cap Range(input.heard) \cap input.held # {})
             => last.ret.value = TRUE
       /\ (KeysOf(last.arg) \cap (Range(input.heard) \cup input.held) = {})
             => last.ret.value = FALSE

====
